---------------------------- MODULE Spec2Model ----------------------------
(***************************************************************************)
(* Model of MinecraftManager (src/src/minecraftManager.js): the registry   *)
(* directory tree, the map of running child processes, and the async       *)
(* operations createServer / startServer / stopServer with the child       *)
(* process events they listen to.                                          *)
(*                                                                         *)
(* Node runs one callback at a time and drains every promise continuation  *)
(* it made ready before the next callback.  An action below is therefore   *)
(* one event-loop callback together with the continuations it resumes:     *)
(* the code between two awaits of an async method, or an event listener    *)
(* with the awaiting methods the event releases.                           *)
(*                                                                         *)
(* Strings the code inspects character by character (names, log chunks)    *)
(* are sequences of one-character strings.  An optional value (null or a   *)
(* value) is a sequence of length 0 or 1.                                  *)
(***************************************************************************)
EXTENDS Integers, Sequences, FiniteSets, TLC

VARIABLES
    fs,        \* registry directory tree: sanitized name -> directory state
    running,   \* this.running: Map from sanitized name to tracking entry
    procs,     \* every child process spawn() created, by handle
    calls,     \* the async calls in flight (suspended at an await), by call id
    settled,   \* the calls that returned or threw in the latest step
    ncalls,    \* number of calls made so far
    nstops,    \* number of stopServer calls made so far
    now,       \* the clock new Date() reads
    ndata,     \* number of stdout/stderr data events delivered so far
    hist,      \* ghost: every line appendLogs pushed, in push order
    wizardSessionByUser  \* the bot's Map from user id to wizard session

vars == <<fs, running, procs, calls, settled, ncalls, nstops, now, ndata, hist,
         wizardSessionByUser>>

----------------------------------------------------------------------------
(* Bounds of the model *)

MaxCalls == 3
MaxData == 1
MaxCreates == 2
MaxMemStarts == 2
MaxSegments == 3
MaxVersions == 3
MaxAppends == 4
BulkLines == 250

----------------------------------------------------------------------------
(* Program constants *)

MAX_BUFFERED_LINES == 500
MemMin == 512
MemMax == 65536
DefaultMemoryMb == 2048
NameMinLen == 3
NameMaxLen == 32
PortMin == 1024
PortMax == 65535
DefaultPort == 25565
LinesMin == 1
LinesMax == 200

----------------------------------------------------------------------------
(* Maps (JS Map) as functions with a varying domain *)

EmptyMap == [k \in {} |-> 0]
Has(m, k) == k \in DOMAIN m
Put(m, k, v) == [x \in (DOMAIN m) \cup {k} |-> IF x = k THEN v ELSE m[x]]
Delete(m, k) == [x \in (DOMAIN m) \ {k} |-> m[x]]

----------------------------------------------------------------------------
(* sanitizeServerName: trim, then /^[a-zA-Z0-9_-]{3,32}$/ *)

Whitespace == {" ", "\t", "\n", "\r"}

NameChars ==
    {"a","b","c","d","e","f","g","h","i","j","k","l","m","n","o","p","q","r",
     "s","t","u","v","w","x","y","z","A","B","C","D","E","F","G","H","I","J",
     "K","L","M","N","O","P","Q","R","S","T","U","V","W","X","Y","Z","0","1",
     "2","3","4","5","6","7","8","9","_","-"}

Trim(s) ==
    LET keep == {i \in 1..Len(s) : s[i] \notin Whitespace}
    IN  IF keep = {} THEN <<>>
        ELSE LET lo == CHOOSE i \in keep : \A j \in keep : i <= j
                 hi == CHOOSE i \in keep : \A j \in keep : j <= i
             IN  SubSeq(s, lo, hi)

NameOk(name) ==
    LET t == Trim(name)
    IN  /\ Len(t) >= NameMinLen
        /\ Len(t) <= NameMaxLen
        /\ \A i \in 1..Len(t) : t[i] \in NameChars

sanitizeServerName(name) == Trim(name)

(* parseIntegerRange(value, name, min, max) succeeds *)
InRange(v, lo, hi) == v >= lo /\ v <= hi

(* String.prototype.toLowerCase on the letters of a name or a version *)
LowerChars ==
    <<"a","b","c","d","e","f","g","h","i","j","k","l","m","n","o","p","q","r",
      "s","t","u","v","w","x","y","z">>
UpperChars ==
    <<"A","B","C","D","E","F","G","H","I","J","K","L","M","N","O","P","Q","R",
      "S","T","U","V","W","X","Y","Z">>

IsUpper(ch) == \E i \in 1..26 : UpperChars[i] = ch
Lower(ch) == IF IsUpper(ch) THEN LowerChars[CHOOSE i \in 1..26 : UpperChars[i] = ch] ELSE ch

ToLowerCase(s) == [i \in 1..Len(s) |-> Lower(s[i])]

(* value || fallback, falsy being the falsy value of the field's type *)
OrElse(member, falsy, fallback) ==
    IF member = <<>> THEN fallback
    ELSE IF member[1] = falsy THEN fallback ELSE member[1]

----------------------------------------------------------------------------
(* Inputs the callers pass *)

GoodName == <<"s", "v", "1">>
BadName == <<"s", "!">>
NameInputs == {GoodName, BadName}
Names == {sanitizeServerName(n) : n \in {x \in NameInputs : NameOk(x)}}

(* memoryOverrideMb: none, or one below the range *)
MemInputs == {<<>>, <<256>>}

----------------------------------------------------------------------------
(* appendLogs *)

StripCR(chunk) == SelectSeq(chunk, LAMBDA ch : ch # "\r")

RECURSIVE SplitRange(_, _, _)
(* the pieces of s[lo..hi] between its line feeds, in order: the pieces of
   the two halves, the last piece of the left half continuing in the first
   piece of the right half *)
SplitRange(s, lo, hi) ==
    IF lo > hi THEN << <<>> >>
    ELSE IF lo = hi THEN (IF s[lo] = "\n" THEN << <<>>, <<>> >> ELSE << <<s[lo]>> >>)
    ELSE LET mid == (lo + hi) \div 2
             a == SplitRange(s, lo, mid)
             b == SplitRange(s, mid + 1, hi)
         IN  SubSeq(a, 1, Len(a) - 1) \o << a[Len(a)] \o b[1] >> \o SubSeq(b, 2, Len(b))

(* String.split("\n"): the pieces between the line feeds, in order *)
SplitLF(s) == SplitRange(s, 1, Len(s))

(* String.split(/\r?\n/): the pieces between line feeds, a carriage return
   in front of a line feed belonging to the separator *)
SplitLines(text) ==
    LET pieces == SplitLF(text)
    IN  [i \in 1..Len(pieces) |->
            IF i < Len(pieces) /\ Len(pieces[i]) > 0
               /\ pieces[i][Len(pieces[i])] = "\r"
            THEN SubSeq(pieces[i], 1, Len(pieces[i]) - 1)
            ELSE pieces[i]]

ChunkLines(chunk) == SelectSeq(SplitLF(StripCR(chunk)), LAMBDA l : Len(l) > 0)

Stamp(lines, t) == [i \in 1..Len(lines) |-> [ts |-> t, line |-> lines[i]]]

LastN(s, n) == IF Len(s) > n THEN SubSeq(s, Len(s) - n + 1, Len(s)) ELSE s

SpliceMut(logs) ==
    IF Len(logs) > MAX_BUFFERED_LINES
    THEN SubSeq(logs, 1, MAX_BUFFERED_LINES)
    ELSE logs

(* state.logs.splice(0, state.logs.length - MAX_BUFFERED_LINES) when over *)
Splice(logs) ==
    IF Len(logs) > MAX_BUFFERED_LINES
    THEN SubSeq(logs, Len(logs) - MAX_BUFFERED_LINES + 1, Len(logs))
    ELSE logs

appendLogs(run, serverName, rawChunk, t) ==
    IF ~Has(run, serverName) THEN run
    ELSE LET lines == ChunkLines(rawChunk)
         IN  IF Len(lines) = 0 THEN run
             ELSE [run EXCEPT ![serverName].logs = Splice(@ \o Stamp(lines, t))]

----------------------------------------------------------------------------
(* The registry directory <baseDir>/<name> and the Config Store reads *)

ConfigFile == "bot-config.json"
JarFile == "server.jar"

(* properties: the text of server.properties once createServer wrote it *)
NoDir == [dir |-> <<>>, files |-> {}, config |-> <<>>, properties |-> <<>>]

(* the directory createServer leaves behind when it succeeds; dir holds the
   id of the call that made the directory, 0 for one made before this run *)
CreatedDir(owner, cfg) ==
    [dir |-> <<owner>>,
     files |-> {JarFile, "eula.txt", "server.properties", ConfigFile, "start.ps1"},
     config |-> <<cfg>>]

DirExists(f, n) == Len(f[n].dir) > 0
FileExists(f, n, file) == DirExists(f, n) /\ file \in f[n].files

(* readServerConfig: null without a record file, else the record with the
   defaults filled in (memoryMb: parsed.memoryMb || 2048) *)
readServerConfig(f, n) ==
    IF ~FileExists(f, n, ConfigFile) THEN <<>>
    ELSE LET parsed == f[n].config[1]
         IN  <<[source |-> parsed.source,
                memoryMb |-> IF Len(parsed.memoryMb) = 0 \/ parsed.memoryMb[1] = 0
                             THEN DefaultMemoryMb ELSE parsed.memoryMb[1],
                jarFile |-> JarFile]>>

LegacyConfig == [source |-> "legacy", memoryMb |-> DefaultMemoryMb, jarFile |-> JarFile]

(* resolveManagedServer: the record, else a legacy record when server.jar
   lies directly in the registry directory, else null *)
resolveManagedServer(f, n) ==
    LET config == readServerConfig(f, n)
    IN  IF Len(config) > 0
        THEN <<[config |-> config[1], jarExists |-> FileExists(f, n, config[1].jarFile)]>>
        ELSE IF FileExists(f, n, JarFile)
             THEN <<[config |-> LegacyConfig, jarExists |-> TRUE]>>
             ELSE <<>>

(* registry directories that hold no record file: an empty one, and one
   with server.jar alone *)
EmptyDir == [NoDir EXCEPT !.dir = <<0>>]
JarOnlyDir == [NoDir EXCEPT !.dir = <<0>>, !.files = {JarFile}]

----------------------------------------------------------------------------
(* Calls and child processes *)

(* live: the children that were running when the call was made;
   made: createServer's mkdir of the registry directory succeeded;
   removal: how the fs.rm of createServer's catch block ended;
   args: the other arguments of createServer / importServer;
   resolvedBuild: what resolveBuildForCreate returned;
   result: what getStatus / getRecentLogs returned;
   logFile: the logs/latest.log getRecentLogs found, <<>> inside when the
   file was not there *)
NewCall(op, name, mem) ==
    [id |-> ncalls + 1, op |-> op, name |-> name, mem |-> mem, pc |-> "new",
     err |-> "", child |-> 0, memoryMb |-> 0, config |-> <<>>,
     wrote |-> FALSE, killed |-> FALSE, made |-> FALSE, removal |-> "none",
     args |-> <<>>, resolvedBuild |-> <<>>, result |-> <<>>, logFile |-> <<>>,
     live |-> {ch \in DOMAIN procs : procs[ch].st = "alive"}]

Threw(call, err) == [call EXCEPT !.pc = "threw", !.err = err]
Returned(call) == [call EXCEPT !.pc = "returned"]

Key(c) == sanitizeServerName(calls[c].name)

(* spawn(): a ChildProcess whose process has not been confirmed yet;
   errored: the error listener of startServer has handled an error event;
   heap: the value of the -Xms/-Xmx flags it was spawned with *)
NewChild(n) ==
    [name |-> n, st |-> "spawning", exitCode |-> "null", stdin |-> 0, sigs |-> 0,
     errored |-> FALSE, heap |-> 0]

Alive(ch) == procs[ch].st = "alive"

(* the calls map and the settled set after the calls in `upd` (id -> new
   record) took a step: a call that returned or threw leaves the map *)
Step(upd) ==
    /\ calls' = [c \in ((DOMAIN calls) \cup (DOMAIN upd))
                          \ {d \in DOMAIN upd : upd[d].pc \in {"returned", "threw"}}
                 |-> IF c \in DOMAIN upd THEN upd[c] ELSE calls[c]]
    /\ settled' = {upd[d] : d \in {x \in DOMAIN upd : upd[x].pc \in {"returned", "threw"}}}

One(call) == [c \in {call.id} |-> call]

NoStep == calls' = calls /\ settled' = {}

----------------------------------------------------------------------------
(* startServer *)

(* this.running.has(serverName) *)
HasEntry(run, serverName) == Has(run, serverName)

EffectiveMemoryMut(mem, config) ==
    IF config.memoryMb = 0 THEN DefaultMemoryMb ELSE config.memoryMb

(* memoryOverrideMb == null ? config.memoryMb || 2048 : the override *)
EffectiveMemory(mem, config) ==
    IF Len(mem) = 0
    THEN (IF config.memoryMb = 0 THEN DefaultMemoryMb ELSE config.memoryMb)
    ELSE mem[1]

(* state = {process, startedAt, logs: []}; this.running.set(serverName, state) *)
TrackProcess(run, serverName, ch, t) ==
    Put(run, serverName, [process |-> ch, startedAt |-> t, logs |-> <<>>])

SpawnRejectedMut(run, serverName) == Delete(run, serverName)

(* child.once("error", reject): the call throws, the listeners of lines
   431-448 are not attached and the map is not touched *)
SpawnRejected(run, serverName) == run

(* the call: sanitizeServerName, then await resolveManagedServer *)
StartCall(name, mem) ==
    /\ ncalls < MaxCalls
    /\ ncalls' = ncalls + 1
    /\ Step(One(IF NameOk(name)
                THEN [NewCall("start", name, mem) EXCEPT !.pc = "resolve"]
                ELSE Threw(NewCall("start", name, mem), "InvalidName")))
    /\ UNCHANGED <<fs, running, procs, nstops, now, ndata, hist, wizardSessionByUser>>

(* resolveManagedServer answered; then await exists(jarPath) *)
StartResolved(c) ==
    /\ calls[c].op = "start" /\ calls[c].pc = "resolve"
    /\ LET managed == resolveManagedServer(fs, Key(c))
       IN  Step(One(IF Len(managed) = 0 THEN Threw(calls[c], "NotManaged")
                    ELSE [calls[c] EXCEPT !.pc = "jarcheck",
                                          !.config = <<managed[1].config>>]))
    /\ UNCHANGED <<fs, running, procs, ncalls, nstops, now, ndata, hist, wizardSessionByUser>>

(* exists(jarPath) answered; running.has, the memory override, spawn(),
   then await the child's spawn or error event *)
StartJarChecked(c) ==
    /\ calls[c].op = "start" /\ calls[c].pc = "jarcheck"
    /\ LET config == calls[c].config[1]
           mem == calls[c].mem
       IN  IF ~FileExists(fs, Key(c), config.jarFile)
           THEN /\ Step(One(Threw(calls[c], "JarNotFound")))
                /\ procs' = procs
           ELSE IF HasEntry(running, Key(c))
           THEN /\ Step(One(Threw(calls[c], "AlreadyRunning")))
                /\ procs' = procs
           ELSE IF Len(mem) > 0 /\ ~InRange(mem[1], MemMin, MemMax)
           THEN /\ Step(One(Threw(calls[c], "InvalidMemory")))
                /\ procs' = procs
           ELSE /\ procs' = Append(procs, [NewChild(Key(c)) EXCEPT
                                               !.heap = EffectiveMemory(mem, config)])
                /\ Step(One([calls[c] EXCEPT !.pc = "spawnwait",
                                             !.child = Len(procs) + 1,
                                             !.memoryMb = EffectiveMemory(mem, config)]))
    /\ UNCHANGED <<fs, running, ncalls, nstops, now, ndata, hist, wizardSessionByUser>>

Spawner(ch) == CHOOSE c \in DOMAIN calls : calls[c].op = "start" /\ calls[c].child = ch

(* the child's spawn event: the entry is set, the listeners are attached
   and the call returns {name, pid, memoryMb} *)
SpawnConfirmed(ch) ==
    /\ procs[ch].st = "spawning"
    /\ procs' = [procs EXCEPT ![ch].st = "alive"]
    /\ running' = TrackProcess(running, procs[ch].name, ch, now)
    /\ Step(One(Returned(calls[Spawner(ch)])))
    /\ now' = now + 1
    /\ UNCHANGED <<fs, ncalls, nstops, ndata, hist, wizardSessionByUser>>

(* the child's error event before any spawn event: the call throws *)
SpawnFailed(ch) ==
    /\ procs[ch].st = "spawning"
    /\ procs' = [procs EXCEPT ![ch].st = "failed"]
    /\ running' = SpawnRejected(running, procs[ch].name)
    /\ Step(One(Threw(calls[Spawner(ch)], "SpawnFailed")))
    /\ UNCHANGED <<fs, ncalls, nstops, now, ndata, hist, wizardSessionByUser>>

----------------------------------------------------------------------------
(* The listeners startServer attaches to the child *)

ExitLine(how) ==
    IF how = "code" THEN <<"[process exit] code=0 signal=null">>
    ELSE <<"[process exit] code=null signal=SIGTERM">>

ErrorLine == <<"[process error] kill EPERM">>

DataChunks == {<<"o", "k", "\n">>}

OnExitMut(run, serverName, how, t) == appendLogs(run, serverName, ExitLine(how), t)

(* child.on("exit"): the synthetic line, then this.running.delete(serverName) *)
OnExit(run, serverName, how, t) ==
    Delete(appendLogs(run, serverName, ExitLine(how), t), serverName)

OnErrorMut(run, serverName, t) == appendLogs(run, serverName, ErrorLine, t)

(* child.on("error"): the synthetic line, then this.running.delete(serverName) *)
OnError(run, serverName, t) ==
    Delete(appendLogs(run, serverName, ErrorLine, t), serverName)

(* the stopServer calls that await once(child, "exit") on this child *)
AwaitingExit(ch) ==
    {c \in DOMAIN calls : /\ calls[c].op = "stop"
                          /\ calls[c].pc \in {"race", "waitexit"}
                          /\ calls[c].child = ch}

(* stdout/stderr data event of a child whose listeners are attached *)
DataEvent(ch, chunk) ==
    /\ Alive(ch)
    /\ ndata < MaxData
    /\ ndata' = ndata + 1
    /\ running' = appendLogs(running, procs[ch].name, chunk, now)
    /\ NoStep
    /\ UNCHANGED <<fs, procs, ncalls, nstops, now, hist, wizardSessionByUser>>

(* the process ends, by itself or by the signal kill() delivered: exitCode
   is set (it stays null when a signal ended the process), the exit listener
   runs, and every once(child, "exit") resolves, which lets the awaiting
   stopServer return *)
ExitEvent(ch, how) ==
    /\ Alive(ch)
    /\ how = "signal" => procs[ch].sigs > 0
    /\ procs' = [procs EXCEPT ![ch].st = "exited",
                              ![ch].exitCode = IF how = "code" THEN "0" ELSE "null"]
    /\ running' = OnExit(running, procs[ch].name, how, now)
    /\ Step([c \in AwaitingExit(ch) |-> Returned(calls[c])])
    /\ UNCHANGED <<fs, ncalls, nstops, now, ndata, hist, wizardSessionByUser>>

----------------------------------------------------------------------------
(* stopServer *)

(* this.running.get(serverName) *)
GetEntry(run, serverName) == IF Has(run, serverName) THEN <<run[serverName]>> ELSE <<>>

StopCallMut(name) ==
    /\ ncalls < MaxCalls
    /\ ncalls' = ncalls + 1
    /\ nstops' = nstops + 1
    /\ Step(One(Threw(NewCall("stop", name, <<>>), "TypeError")))
    /\ UNCHANGED <<fs, running, procs, now, ndata, hist, wizardSessionByUser>>

(* the call, up to the await of the race between the exit event and the
   15 s timer: the not-running check, then "stop\n" on the child's stdin *)
StopCall(name) ==
    /\ ncalls < MaxCalls
    /\ ncalls' = ncalls + 1
    /\ nstops' = nstops + 1
    /\ LET call == NewCall("stop", name, <<>>)
           state == GetEntry(running, sanitizeServerName(name))
       IN  IF ~NameOk(name)
           THEN /\ Step(One(Threw(call, "InvalidName")))
                /\ procs' = procs
           ELSE IF Len(state) = 0
           THEN /\ Step(One(Threw(call, "NotRunning")))
                /\ procs' = procs
           ELSE LET ch == state[1].process
                    write == procs[ch].exitCode = "null"
                IN  /\ procs' = IF write THEN [procs EXCEPT ![ch].stdin = @ + 1]
                                ELSE procs
                    /\ Step(One([call EXCEPT !.pc = "race", !.child = ch,
                                             !.wrote = write]))
    /\ UNCHANGED <<fs, running, now, ndata, hist, wizardSessionByUser>>

AfterKillMut(call) == Returned([call EXCEPT !.killed = TRUE])

(* child.kill(); await once(child, "exit") *)
AfterKill(call) == [call EXCEPT !.pc = "waitexit", !.killed = TRUE]

(* the 15 s timer fires before the exit event: stopped is false.  kill()
   either delivers the signal or, when the platform refuses it, emits the
   child's error event, which runs the error listener and rejects every
   other pending once(child, "exit") *)
StopTimer(c, outcome) ==
    /\ calls[c].op = "stop" /\ calls[c].pc = "race"
    /\ LET ch == calls[c].child
       IN  IF procs[ch].exitCode # "null"
           THEN /\ Step(One(Returned(calls[c])))
                /\ UNCHANGED <<procs, running>>
           ELSE IF ~Alive(ch)
           THEN /\ Step(One(AfterKill(calls[c])))
                /\ UNCHANGED <<procs, running>>
           ELSE IF outcome = "sent"
           THEN /\ procs' = [procs EXCEPT ![ch].sigs = @ + 1]
                /\ Step(One(AfterKill(calls[c])))
                /\ running' = running
           ELSE /\ running' = OnError(running, procs[ch].name, now)
                /\ Step([d \in AwaitingExit(ch) |->
                            IF d = c THEN AfterKill(calls[d])
                            ELSE Threw(calls[d], "KillFailed")])
                /\ procs' = [procs EXCEPT ![ch].errored = TRUE]
    /\ UNCHANGED <<fs, ncalls, nstops, now, ndata, hist, wizardSessionByUser>>

----------------------------------------------------------------------------
(* Files removed from outside the manager while it runs *)

ExternalRemove(n, what) ==
    /\ DirExists(fs, n)
    /\ fs' = [fs EXCEPT ![n] =
                 IF what = "dir" THEN NoDir
                 ELSE [@ EXCEPT !.files = @ \ {JarFile}]]
    /\ fs' # fs
    /\ NoStep
    /\ UNCHANGED <<running, procs, ncalls, nstops, now, ndata, hist, wizardSessionByUser>>

----------------------------------------------------------------------------
(* The process supervisor: startServer, stopServer and the child events,
   on an installation createServer made earlier *)

Init ==
    /\ fs = [n \in Names |->
                CreatedDir(0, [source |-> "created", memoryMb |-> <<1024>>])]
    /\ running = EmptyMap
    /\ procs = <<>>
    /\ calls = EmptyMap
    /\ settled = {}
    /\ ncalls = 0
    /\ nstops = 0
    /\ now = 0
    /\ ndata = 0
    /\ hist = <<>>
    /\ wizardSessionByUser = EmptyMap

Next ==
    \/ \E name \in NameInputs, mem \in MemInputs : StartCall(name, mem)
    \/ \E c \in DOMAIN calls : StartResolved(c)
    \/ \E c \in DOMAIN calls : StartJarChecked(c)
    \/ \E ch \in DOMAIN procs : SpawnConfirmed(ch)
    \/ \E ch \in DOMAIN procs : SpawnFailed(ch)
    \/ \E ch \in DOMAIN procs, chunk \in DataChunks : DataEvent(ch, chunk)
    \/ \E ch \in DOMAIN procs, how \in {"code", "signal"} : ExitEvent(ch, how)
    \/ \E name \in NameInputs : StopCall(name)
    \/ \E c \in DOMAIN calls, outcome \in {"sent", "error"} : StopTimer(c, outcome)
    \/ \E n \in Names, what \in {"jar", "dir"} : ExternalRemove(n, what)

Spec == Init /\ [][Next]_vars

(* The same, with what the event loop guarantees: a pending I/O completion,
   a pending spawn/error event and an armed timer are eventually delivered.
   When, and whether, a child process exits is not up to the manager. *)
FairSpec ==
    /\ Spec
    /\ WF_vars(\E c \in DOMAIN calls : StartResolved(c))
    /\ WF_vars(\E c \in DOMAIN calls : StartJarChecked(c))
    /\ WF_vars(\E ch \in DOMAIN procs : SpawnConfirmed(ch) \/ SpawnFailed(ch))
    /\ WF_vars(\E c \in DOMAIN calls : StopTimer(c, "sent"))

----------------------------------------------------------------------------
(* The log buffer alone: data events of one tracked child.  A chunk is
   given by the lines it carries; the raw chunk is those lines, each ended
   by a line feed or by carriage return and line feed, the last one ended
   or not. *)

RECURSIVE JoinLines(_, _, _)
JoinLines(lines, eol, ended) ==
    IF Len(lines) = 0 THEN <<>>
    ELSE IF Len(lines) = 1 THEN (IF ended THEN lines[1] \o eol ELSE lines[1])
    ELSE LET mid == Len(lines) \div 2
         IN  JoinLines(SubSeq(lines, 1, mid), eol, TRUE)
                 \o JoinLines(SubSeq(lines, mid + 1, Len(lines)), eol, ended)

(* a burst of output: lines of one to three characters *)
Bulk == [i \in 1..BulkLines |-> [j \in 1..((i % 3) + 1) |-> "x"]]

LineLists ==
    { <<>>,
      << <<"[process error] kill EPERM">> >>,
      << <<"a", "b">>, <<>>, <<"c">> >>,
      Bulk }

Eols == { <<"\n">>, <<"\r", "\n">> }

NonEmpty(lines) == SelectSeq(lines, LAMBDA l : Len(l) > 0)

TrackedName == CHOOSE n \in Names : TRUE

LogData(lines, eol, ended) ==
    /\ ndata < MaxAppends
    /\ ndata' = ndata + 1
    /\ now' = now + 1
    /\ running' = appendLogs(running, TrackedName, JoinLines(lines, eol, ended), now)
    /\ hist' = hist \o Stamp(NonEmpty(lines), now)
    /\ UNCHANGED wizardSessionByUser
    /\ NoStep
    /\ UNCHANGED <<fs, procs, ncalls, nstops>>

(* the state right after the first successful startServer *)
LogInit ==
    /\ fs = [n \in Names |->
                CreatedDir(0, [source |-> "created", memoryMb |-> <<1024>>])]
    /\ running = TrackProcess(EmptyMap, TrackedName, 1, 0)
    /\ procs = << [NewChild(TrackedName) EXCEPT !.st = "alive", !.heap = 1024] >>
    /\ calls = EmptyMap
    /\ settled = {}
    /\ ncalls = 1
    /\ nstops = 0
    /\ now = 1
    /\ ndata = 0
    /\ hist = <<>>
    /\ wizardSessionByUser = EmptyMap

LogNext ==
    \E lines \in LineLists, eol \in Eols, ended \in BOOLEAN : LogData(lines, eol, ended)

LogSpec == LogInit /\ [][LogNext]_vars

----------------------------------------------------------------------------
(* startServer with and without a memory override, on an installation with
   a stored memoryMb, with a record that has none, or with no record *)

MemOverrides == {<<>>, <<4096>>, <<256>>}

MemDirs ==
    {CreatedDir(0, [source |-> "created", memoryMb |-> <<1024>>]),
     CreatedDir(0, [source |-> "created", memoryMb |-> <<>>]),
     [dir |-> <<0>>, files |-> {JarFile}, config |-> <<>>]}

MemInit ==
    /\ fs \in [Names -> MemDirs]
    /\ running = EmptyMap
    /\ procs = <<>>
    /\ calls = EmptyMap
    /\ settled = {}
    /\ ncalls = 0
    /\ nstops = 0
    /\ now = 0
    /\ ndata = 0
    /\ hist = <<>>
    /\ wizardSessionByUser = EmptyMap

MemNext ==
    \/ \E name \in NameInputs, mem \in MemOverrides :
          ncalls < MaxMemStarts /\ StartCall(name, mem)
    \/ \E c \in DOMAIN calls : StartResolved(c)
    \/ \E c \in DOMAIN calls : StartJarChecked(c)
    \/ \E ch \in DOMAIN procs : SpawnConfirmed(ch)
    \/ \E ch \in DOMAIN procs : SpawnFailed(ch)
    \/ \E ch \in DOMAIN procs : ExitEvent(ch, "code")

MemSpec == MemInit /\ [][MemNext]_vars

----------------------------------------------------------------------------
(* getStatus and getRecentLogs, next to stopServer, on a tracked process
   whose installation may be deleted from outside while it runs *)

LineCountInputs == {1, 2, 0}

(* the call: sanitizeServerName, then await resolveManagedServer *)
StatusCall(name) ==
    /\ ncalls < MaxCalls
    /\ ncalls' = ncalls + 1
    /\ Step(One(IF NameOk(name)
                THEN [NewCall("status", name, <<>>) EXCEPT !.pc = "resolve"]
                ELSE Threw(NewCall("status", name, <<>>), "InvalidName")))
    /\ UNCHANGED <<fs, running, procs, nstops, now, ndata, hist, wizardSessionByUser>>

(* the status object, from the managed record and this.running.get *)
StatusOf(managed, runningEntry) ==
    IF Len(managed) = 0
    THEN [exists |-> FALSE, running |-> FALSE, pid |-> <<>>]
    ELSE [exists |-> TRUE, running |-> Len(runningEntry) > 0,
          pid |-> IF Len(runningEntry) > 0 THEN <<runningEntry[1].process>> ELSE <<>>]

(* resolveManagedServer answered: the status object is returned *)
StatusResolved(c) ==
    /\ calls[c].op = "status" /\ calls[c].pc = "resolve"
    /\ Step(One(Returned([calls[c] EXCEPT !.result =
                   <<StatusOf(resolveManagedServer(fs, Key(c)),
                              GetEntry(running, Key(c)))>>])))
    /\ UNCHANGED <<fs, running, procs, ncalls, nstops, now, ndata, hist, wizardSessionByUser>>

(* the call: sanitizeServerName, the line count in [1,200], then await
   resolveManagedServer *)
LogsCall(name, lineCount) ==
    /\ ncalls < MaxCalls
    /\ ncalls' = ncalls + 1
    /\ LET call == [NewCall("logs", name, <<>>) EXCEPT !.args = <<[lines |-> lineCount]>>]
       IN  Step(One(IF ~NameOk(name) THEN Threw(call, "InvalidName")
                    ELSE IF ~InRange(lineCount, LinesMin, LinesMax)
                    THEN Threw(call, "InvalidLines")
                    ELSE [call EXCEPT !.pc = "resolve"]))
    /\ UNCHANGED <<fs, running, procs, nstops, now, ndata, hist, wizardSessionByUser>>

(* if (!managed) throw: the tracking map is not looked at *)
LogsUnmanaged(call, runningEntry) == Threw(call, "NotManaged")

(* resolveManagedServer answered: not managed, or the tail of the live
   buffer, or on to await exists(logPath) *)
LogsResolved(c) ==
    /\ calls[c].op = "logs" /\ calls[c].pc = "resolve"
    /\ LET managed == resolveManagedServer(fs, Key(c))
           runningEntry == GetEntry(running, Key(c))
       IN  Step(One(IF Len(managed) = 0 THEN LogsUnmanaged(calls[c], runningEntry)
                    ELSE IF Len(runningEntry) > 0
                    THEN Returned([calls[c] EXCEPT !.result =
                             <<LastN(runningEntry[1].logs, calls[c].args[1].lines)>>])
                    ELSE [calls[c] EXCEPT !.pc = "logfile"]))
    /\ UNCHANGED <<fs, running, procs, ncalls, nstops, now, ndata, hist, wizardSessionByUser>>

(* logs/latest.log, a file the server process writes: its text, and the
   non-empty lines that text consists of *)
LatestLogs ==
    {[text |-> <<"a", "1", "\r", "\n", "\n", "b", "2", "\n", "c", "3">>,
      lines |-> <<<<"a", "1">>, <<"b", "2">>, <<"c", "3">>>>],
     [text |-> <<"d", "4", "\r", "\n">>, lines |-> <<<<"d", "4">>>>],
     [text |-> <<>>, lines |-> <<>>]}

LogFiles == {<<>>} \cup {<<file>> : file \in LatestLogs}

FileLinesMut(text) == SplitLines(text)

(* text.split(/\r?\n/).filter(Boolean) *)
FileLines(text) == SelectSeq(SplitLines(text), LAMBDA l : Len(l) > 0)

(* exists(logPath) answered, and readFile when the file is there *)
LogsFileRead(c, file) ==
    /\ calls[c].op = "logs" /\ calls[c].pc = "logfile"
    /\ Step(One(Returned([calls[c] EXCEPT
                   !.logFile = <<file>>,
                   !.result = <<IF Len(file) > 0
                                THEN LastN(FileLines(file[1].text),
                                           calls[c].args[1].lines)
                                ELSE <<>> >>])))
    /\ UNCHANGED <<fs, running, procs, ncalls, nstops, now, ndata, hist, wizardSessionByUser>>

ViewNext ==
    \/ \E name \in NameInputs : StatusCall(name)
    \/ \E c \in DOMAIN calls : StatusResolved(c)
    \/ \E name \in NameInputs, lineCount \in LineCountInputs : LogsCall(name, lineCount)
    \/ \E c \in DOMAIN calls : LogsResolved(c)
    \/ \E c \in DOMAIN calls, file \in LogFiles : LogsFileRead(c, file)
    \/ \E name \in NameInputs : StopCall(name)
    \/ \E c \in DOMAIN calls, outcome \in {"sent", "error"} : StopTimer(c, outcome)
    \/ \E ch \in DOMAIN procs, chunk \in DataChunks : DataEvent(ch, chunk)
    \/ \E ch \in DOMAIN procs, how \in {"code", "signal"} : ExitEvent(ch, how)
    \/ \E n \in Names, what \in {"jar", "dir"} : ExternalRemove(n, what)

(* starts in the state right after the first successful startServer *)
ViewSpec == LogInit /\ [][ViewNext]_vars

----------------------------------------------------------------------------
(* parseMcVersion, compareMcVersion and pickLatestMcVersion on dotted
   version strings *)

DigitChars == <<"0", "1", "2", "3", "4", "5", "6", "7", "8", "9">>

IsDigit(ch) == \E d \in 1..10 : DigitChars[d] = ch
DigitValue(ch) == (CHOOSE d \in 1..10 : DigitChars[d] = ch) - 1

RECURSIVE Decimal(_)
(* String(n) of a non-negative integer *)
Decimal(n) ==
    IF n < 10 THEN <<DigitChars[n + 1]>>
    ELSE Decimal(n \div 10) \o <<DigitChars[(n % 10) + 1]>>

RECURSIVE Dotted(_)
(* the version string of a list of segments: "1.20.1" of <<1, 20, 1>> *)
Dotted(segments) ==
    IF Len(segments) = 0 THEN <<>>
    ELSE IF Len(segments) = 1 THEN Decimal(segments[1])
    ELSE Decimal(segments[1]) \o <<".">> \o Dotted(Tail(segments))

RECURSIVE SplitOn(_, _)
(* String.split(sep) for a one-character separator *)
SplitOn(s, sep) ==
    IF \A i \in 1..Len(s) : s[i] # sep THEN <<s>>
    ELSE LET i == CHOOSE k \in 1..Len(s) :
                      s[k] = sep /\ \A j \in 1..(k - 1) : s[j] # sep
         IN  <<SubSeq(s, 1, i - 1)>> \o SplitOn(SubSeq(s, i + 1, Len(s)), sep)

RECURSIVE DigitsValue(_, _)
(* the value of the leading run of digits of s, after the value acc *)
DigitsValue(s, acc) ==
    IF Len(s) = 0 \/ ~IsDigit(s[1]) THEN acc
    ELSE DigitsValue(Tail(s), 10 * acc + DigitValue(s[1]))

(* Number.parseInt(part, 10) of a part without sign or leading blanks: the
   leading digits, NaN (no value) when there is none *)
ParseInt(part) ==
    IF Len(part) = 0 \/ ~IsDigit(part[1]) THEN <<>>
    ELSE <<DigitsValue(part, 0)>>

(* split("."), parseInt each part, drop the parts that are not a number *)
parseMcVersion(version) ==
    LET parts == SplitOn(version, ".")
        parsed == [i \in 1..Len(parts) |-> ParseInt(parts[i])]
        finite == SelectSeq(parsed, LAMBDA p : Len(p) > 0)
    IN  [i \in 1..Len(finite) |-> finite[i][1]]

Max(x, y) == IF x > y THEN x ELSE y

(* left[i] ?? 0 *)
SegmentAt(segments, i) == IF i <= Len(segments) THEN segments[i] ELSE 0

compareMcVersionMut(a, b) ==
    LET left == parseMcVersion(a)
        right == parseMcVersion(b)
    IN  IF Len(left) # Len(right) THEN Len(left) - Len(right)
        ELSE IF \A i \in 1..Len(left) : left[i] = right[i] THEN 0
        ELSE LET i == CHOOSE k \in 1..Len(left) :
                          left[k] # right[k] /\ \A j \in 1..(k - 1) : left[j] = right[j]
             IN  left[i] - right[i]

(* the difference of the first pair of segments that differ, 0 when none *)
compareMcVersion(a, b) ==
    LET left == parseMcVersion(a)
        right == parseMcVersion(b)
        maxLen == Max(Len(left), Len(right))
        differ == {i \in 1..maxLen : SegmentAt(left, i) # SegmentAt(right, i)}
    IN  IF differ = {} THEN 0
        ELSE LET i == CHOOSE k \in differ : \A j \in differ : k <= j
             IN  SegmentAt(left, i) - SegmentAt(right, i)

RECURSIVE InsertSorted(_, _)
(* v put into the sorted list after every element that does not compare
   greater than it *)
InsertSorted(sorted, v) ==
    IF Len(sorted) = 0 THEN <<v>>
    ELSE IF compareMcVersion(sorted[Len(sorted)], v) > 0
    THEN InsertSorted(SubSeq(sorted, 1, Len(sorted) - 1), v) \o <<sorted[Len(sorted)]>>
    ELSE sorted \o <<v>>

RECURSIVE SortVersions(_)
(* [...versions].sort(compareMcVersion): a stable sort *)
SortVersions(versions) ==
    IF Len(versions) = 0 THEN <<>>
    ELSE InsertSorted(SortVersions(SubSeq(versions, 1, Len(versions) - 1)),
                      versions[Len(versions)])

(* pickLatestMcVersion: throws on an empty list, else .sort(...).at(-1) *)
pickLatestMcVersion(versions) ==
    IF Len(versions) = 0 THEN <<>>
    ELSE <<SortVersions(versions)[Len(versions)]>>

----------------------------------------------------------------------------
(* createServer *)

CREATE_SUPPORTED_FORKS == {"vanilla", "paper", "purpur"}

ForkInputs == {"paper", "forge"}
PortInputs == {25565, 80}
CreateMemInputs == {1024, 256}

(* the first validation that rejects the arguments, "" when none does *)
CreateRejects(name, fork, port, memoryMb) ==
    IF ~NameOk(name) THEN "InvalidName"
    ELSE IF fork \notin CREATE_SUPPORTED_FORKS THEN "UnsupportedFork"
    ELSE IF ~InRange(port, PortMin, PortMax) THEN "InvalidPort"
    ELSE IF ~InRange(memoryMb, MemMin, MemMax) THEN "InvalidMemory"
    ELSE ""

(* fs.mkdir(serverPath), not recursive *)
MakeDir(f, n, owner) == [f EXCEPT ![n] = [NoDir EXCEPT !.dir = <<owner>>]]

(* fs.mkdir(serverConfigDir, {recursive: true}) *)
MakeDirRecursive(f, n, owner) == IF DirExists(f, n) THEN f ELSE MakeDir(f, n, owner)

(* fs.writeFile / createWriteStream of a file of the registry directory *)
PutFile(f, n, file) == [f EXCEPT ![n].files = @ \cup {file}]

RemoveTreeMut(f, n) == [f EXCEPT ![n].files = {}, ![n].config = <<>>]

(* fs.rm(serverPath, {recursive: true, force: true}) *)
RemoveTree(f, n) == [f EXCEPT ![n] = NoDir]

(* the catch block is entered: await fs.rm, the error kept for the throw *)
Failing(call, err) == [call EXCEPT !.pc = "cleanup", !.err = err]

MkdirRejectedMut(call) == Failing(call, "AlreadyExists")

(* mkdir rejected with EEXIST: thrown from the catch of lines 209-214, which
   lies outside the try block that has the cleanup *)
MkdirRejected(call) == Threw(call, "AlreadyExists")

(* the call: the validations, then await fs.mkdir(serverPath); version and
   motd are <<>> when the caller passes none *)
CreateCallWith(name, fork, port, memoryMb, version, motd) ==
    /\ ncalls < MaxCreates
    /\ ncalls' = ncalls + 1
    /\ LET call == [NewCall("create", name, <<memoryMb>>) EXCEPT
                        !.args = <<[fork |-> fork, port |-> port,
                                    version |-> version, motd |-> motd]>>]
           rejected == CreateRejects(name, fork, port, memoryMb)
       IN  Step(One(IF rejected # "" THEN Threw(call, rejected)
                    ELSE [call EXCEPT !.pc = "mkdir"]))
    /\ UNCHANGED <<fs, running, procs, nstops, now, ndata, hist, wizardSessionByUser>>

(* createServer without version and motd *)
CreateCall(name, fork, port, memoryMb) ==
    CreateCallWith(name, fork, port, memoryMb, <<>>, <<>>)

(* mkdir answered: EEXIST and any other failure are thrown as they are,
   outside the try block; then await resolveBuildForCreate *)
CreateMkdir(c, ok) ==
    /\ calls[c].op = "create" /\ calls[c].pc = "mkdir"
    /\ IF DirExists(fs, Key(c))
       THEN /\ Step(One(MkdirRejected(calls[c])))
            /\ fs' = fs
       ELSE IF ~ok
       THEN /\ Step(One(Threw(calls[c], "MkdirFailed")))
            /\ fs' = fs
       ELSE /\ fs' = MakeDir(fs, Key(c), c)
            /\ Step(One([calls[c] EXCEPT !.pc = "resolve", !.made = TRUE]))
    /\ UNCHANGED <<running, procs, ncalls, nstops, now, ndata, hist, wizardSessionByUser>>

Latest == <<"l", "a", "t", "e", "s", "t">>
Unknown == <<"u", "n", "k", "n", "o", "w", "n">>

(* the versions the upstream project lists *)
UpstreamVersions == <<Dotted(<<1, 20>>), Dotted(<<1, 21, 1>>)>>

(* const versionInput = String(version || "latest").trim() || "latest" *)
VersionInput(version) == IF Len(Trim(version)) = 0 THEN Latest ELSE Trim(version)

(* targetVersion of the resolvers: the latest upstream version when the
   lower-cased input is "latest", else the input *)
TargetVersion(versionInput) ==
    IF ToLowerCase(Trim(versionInput)) = Latest
    THEN pickLatestMcVersion(UpstreamVersions)[1]
    ELSE Trim(versionInput)

(* what the resolver of a fork returns for "latest": the concrete version
   and the build, null for vanilla *)
ResolvedBuild(fork) ==
    [version |-> pickLatestMcVersion(UpstreamVersions)[1],
     build |-> IF fork = "vanilla" THEN "null" ELSE "130"]

(* resolveBuildForCreate({fork, versionInput}): throws (<<>>) for a version
   upstream does not list *)
resolveBuildForCreate(fork, versionInput) ==
    IF \E i \in 1..Len(UpstreamVersions) : UpstreamVersions[i] = TargetVersion(versionInput)
    THEN <<[ResolvedBuild(fork) EXCEPT !.version = TargetVersion(versionInput)]>>
    ELSE <<>>

(* build: resolvedBuild.build ?? null *)
OrNull(v) == IF v = "undefined" THEN "null" ELSE v

CreateConfigMut(call) ==
    [source |-> "created", serverPath |-> "self", fork |-> call.args[1].fork,
     version |-> Latest, build |-> "null",
     port |-> call.args[1].port, memoryMb |-> call.mem,
     motd |-> sanitizeServerName(call.name)]

(* the config object createServer builds, persists and returns; serverPath
   "self" is the registry directory of the name *)
CreateConfig(call) ==
    [source |-> "created", serverPath |-> "self", fork |-> call.args[1].fork,
     version |-> call.resolvedBuild[1].version,
     build |-> OrNull(call.resolvedBuild[1].build),
     port |-> call.args[1].port, memoryMb |-> call.mem,
     motd |-> IF Len(call.args[1].motd) = 0 THEN sanitizeServerName(call.name)
              ELSE call.args[1].motd]

(* the build resolver answered; then downloadFile awaits fetch(jarUrl) *)
CreateResolved(c, ok) ==
    /\ calls[c].op = "create" /\ calls[c].pc = "resolve"
    /\ LET resolved == resolveBuildForCreate(calls[c].args[1].fork,
                                             VersionInput(calls[c].args[1].version))
       IN  Step(One(IF ok /\ Len(resolved) = 1
                    THEN [calls[c] EXCEPT !.pc = "fetch", !.resolvedBuild = resolved]
                    ELSE Failing(calls[c], "ResolveFailed")))
    /\ UNCHANGED <<fs, running, procs, ncalls, nstops, now, ndata, hist, wizardSessionByUser>>

(* fetch answered: createWriteStream opens server.jar and the pipeline is
   awaited *)
CreateFetched(c, ok) ==
    /\ calls[c].op = "create" /\ calls[c].pc = "fetch"
    /\ IF ok /\ DirExists(fs, Key(c))
       THEN /\ fs' = PutFile(fs, Key(c), JarFile)
            /\ Step(One([calls[c] EXCEPT !.pc = "pipe"]))
       ELSE /\ fs' = fs
            /\ Step(One(Failing(calls[c], "DownloadFailed")))
    /\ UNCHANGED <<running, procs, ncalls, nstops, now, ndata, hist, wizardSessionByUser>>

(* the pipeline ended; then await writeFile(eula.txt) *)
CreatePiped(c, ok) ==
    /\ calls[c].op = "create" /\ calls[c].pc = "pipe"
    /\ Step(One(IF ok /\ FileExists(fs, Key(c), JarFile)
                THEN [calls[c] EXCEPT !.pc = "eula"]
                ELSE Failing(calls[c], "DownloadFailed")))
    /\ UNCHANGED <<fs, running, procs, ncalls, nstops, now, ndata, hist, wizardSessionByUser>>

RECURSIVE ReplaceChar(_, _, _)
(* String.replaceAll(ch, replacement) for a pattern of one character *)
ReplaceChar(s, ch, replacement) ==
    IF Len(s) = 0 THEN <<>>
    ELSE (IF s[1] = ch THEN replacement ELSE <<s[1]>>)
             \o ReplaceChar(Tail(s), ch, replacement)

MinecraftServer == <<"M", "i", "n", "e", "c", "r", "a", "f", "t", " ", "S", "e", "r", "v", "e", "r">>

(* escapedMotd of buildServerProperties; motd is <<>> when it is undefined
   or empty *)
EscapedMotd(motd) ==
    ReplaceChar(
        ReplaceChar(
            ReplaceChar(
                ReplaceChar(IF Len(motd) = 0 THEN MinecraftServer ELSE motd,
                            "\n", <<" ">>),
                "\r", <<" ">>),
            ":", <<"\\", ":">>),
        "=", <<"\\", "=">>)

(* buildServerProperties({port, motd}): the lines joined by line feeds.  Of
   the fixed lines only those next to the two computed ones and the last
   are kept; the others have the same shape and no bearing on either *)
buildServerProperties(port, motd) ==
    JoinLines(<<<<"m", "a", "x", "-", "w", "o", "r", "l", "d", "-", "s", "i", "z", "e", "=", "2", "9", "9", "9", "9", "9", "8", "4">>,
                <<"m", "o", "t", "d", "=">> \o EscapedMotd(motd),
                <<"n", "e", "t", "w", "o", "r", "k", "-", "c", "o", "m", "p", "r", "e", "s", "s", "i", "o", "n", "-", "t", "h", "r", "e", "s", "h", "o", "l", "d", "=", "2", "5", "6">>,
                <<"s", "e", "r", "v", "e", "r", "-", "i", "p", "=">>,
                <<"s", "e", "r", "v", "e", "r", "-", "p", "o", "r", "t", "=">> \o Decimal(port),
                <<"w", "h", "i", "t", "e", "-", "l", "i", "s", "t", "=", "f", "a", "l", "s", "e">>>>,
              <<"\n">>, FALSE)

(* the file written at each writeFile of the try block, and what follows *)
WriteOf(pc) ==
    IF pc = "eula" THEN [file |-> "eula.txt", then |-> "props"]
    ELSE IF pc = "props" THEN [file |-> "server.properties", then |-> "cfgdir"]
    ELSE [file |-> "start.ps1", then |-> "returned"]

(* writeFile of eula.txt, server.properties or start.ps1 answered; after
   server.properties the config object is built, after start.ps1 the call
   returns it *)
CreateWrote(c, ok) ==
    /\ calls[c].op = "create" /\ calls[c].pc \in {"eula", "props", "script"}
    /\ IF ok /\ DirExists(fs, Key(c))
       THEN /\ fs' = IF calls[c].pc = "props"
                      THEN [PutFile(fs, Key(c), "server.properties") EXCEPT
                               ![Key(c)].properties =
                                   buildServerProperties(calls[c].args[1].port,
                                                         calls[c].args[1].motd)
                                       \o <<"\n">>]
                      ELSE PutFile(fs, Key(c), WriteOf(calls[c].pc).file)
            /\ Step(One([calls[c] EXCEPT
                             !.pc = WriteOf(calls[c].pc).then,
                             !.config = IF calls[c].pc = "props"
                                        THEN <<CreateConfig(calls[c])>> ELSE @]))
       ELSE /\ fs' = fs
            /\ Step(One(Failing(calls[c], "WriteFailed")))
    /\ UNCHANGED <<running, procs, ncalls, nstops, now, ndata, hist, wizardSessionByUser>>

(* writeServerConfig: mkdir {recursive: true} answered; then await
   writeFile(bot-config.json) *)
CreateConfigDir(c, ok) ==
    /\ calls[c].op = "create" /\ calls[c].pc = "cfgdir"
    /\ IF ok
       THEN /\ fs' = MakeDirRecursive(fs, Key(c), c)
            /\ Step(One([calls[c] EXCEPT !.pc = "cfgwrite"]))
       ELSE /\ fs' = fs
            /\ Step(One(Failing(calls[c], "WriteFailed")))
    /\ UNCHANGED <<running, procs, ncalls, nstops, now, ndata, hist, wizardSessionByUser>>

(* writeServerConfig: the record is written; then await writeFile(start.ps1) *)
CreateConfigWritten(c, ok) ==
    /\ calls[c].op = "create" /\ calls[c].pc = "cfgwrite"
    /\ IF ok /\ DirExists(fs, Key(c))
       THEN /\ fs' = [PutFile(fs, Key(c), ConfigFile) EXCEPT ![Key(c)].config =
                         calls[c].config]
            /\ Step(One([calls[c] EXCEPT !.pc = "script"]))
       ELSE /\ fs' = fs
            /\ Step(One(Failing(calls[c], "WriteFailed")))
    /\ UNCHANGED <<running, procs, ncalls, nstops, now, ndata, hist, wizardSessionByUser>>

(* the catch block: fs.rm answered.  When it removed the tree the error
   caught is thrown; when rm itself failed, its error is thrown instead and
   the tree stays *)
CreateCleanup(c, ok) ==
    /\ calls[c].op = "create" /\ calls[c].pc = "cleanup"
    /\ IF ok
       THEN /\ fs' = RemoveTree(fs, Key(c))
            /\ Step(One(Threw([calls[c] EXCEPT !.removal = "done"], calls[c].err)))
       ELSE /\ DirExists(fs, Key(c))
            /\ fs' = fs
            /\ Step(One(Threw([calls[c] EXCEPT !.removal = "failed"],
                            "CleanupFailed")))
    /\ UNCHANGED <<running, procs, ncalls, nstops, now, ndata, hist, wizardSessionByUser>>

(* the registry after init(): the base directory, empty *)
CreateInit ==
    /\ fs = [n \in Names |-> NoDir]
    /\ running = EmptyMap
    /\ procs = <<>>
    /\ calls = EmptyMap
    /\ settled = {}
    /\ ncalls = 0
    /\ nstops = 0
    /\ now = 0
    /\ ndata = 0
    /\ hist = <<>>
    /\ wizardSessionByUser = EmptyMap

CreateNext ==
    \/ \E name \in NameInputs, fork \in ForkInputs, port \in PortInputs,
          memoryMb \in CreateMemInputs : CreateCall(name, fork, port, memoryMb)
    \/ \E c \in DOMAIN calls, ok \in BOOLEAN : CreateMkdir(c, ok)
    \/ \E c \in DOMAIN calls, ok \in BOOLEAN : CreateResolved(c, ok)
    \/ \E c \in DOMAIN calls, ok \in BOOLEAN : CreateFetched(c, ok)
    \/ \E c \in DOMAIN calls, ok \in BOOLEAN : CreatePiped(c, ok)
    \/ \E c \in DOMAIN calls, ok \in BOOLEAN : CreateWrote(c, ok)
    \/ \E c \in DOMAIN calls, ok \in BOOLEAN : CreateConfigDir(c, ok)
    \/ \E c \in DOMAIN calls, ok \in BOOLEAN : CreateConfigWritten(c, ok)
    \/ \E c \in DOMAIN calls, ok \in BOOLEAN : CreateCleanup(c, ok)

CreateSpec == CreateInit /\ [][CreateNext]_vars

----------------------------------------------------------------------------
(* importServer *)

IMPORT_SUPPORTED_FORKS == {"vanilla", "paper", "purpur", "custom"}

(* sourcePath: "ext" is a directory outside the base directory that holds
   server.jar and no server.properties, "self" is the registry directory
   of the name itself, "gone" is no directory *)
SourceInputs == {"ext", "self", "gone"}

IsDirectory(f, n, src) == src = "ext" \/ (src = "self" /\ DirExists(f, n))
SourceHasJar(f, n, src) == src = "ext" \/ (src = "self" /\ FileExists(f, n, JarFile))

ImportRejects(name, fork, memoryMb) ==
    IF ~NameOk(name) THEN "InvalidName"
    ELSE IF fork \notin IMPORT_SUPPORTED_FORKS THEN "UnsupportedFork"
    ELSE IF ~InRange(memoryMb, MemMin, MemMax) THEN "InvalidMemory"
    ELSE ""

(* const selectedVersion = String(version || "unknown").trim() || "unknown" *)
SelectedVersion(version) == IF Len(Trim(version)) = 0 THEN Unknown ELSE Trim(version)

(* const motd = String(serverProperties.motd || serverName).trim() || serverName *)
ImportMotd(propertiesMotd, serverName) ==
    IF Len(Trim(OrElse(propertiesMotd, <<>>, serverName))) = 0 THEN serverName
    ELSE Trim(OrElse(propertiesMotd, <<>>, serverName))

ImportConfigMut(call) ==
    [source |-> "imported", serverPath |-> "self",
     fork |-> call.args[1].fork, version |-> SelectedVersion(call.args[1].version),
     build |-> "null", port |-> DefaultPort, memoryMb |-> call.mem,
     motd |-> ImportMotd(call.args[1].motd, sanitizeServerName(call.name))]

(* the config object importServer builds, persists and returns *)
ImportConfig(call) ==
    [source |-> "imported", serverPath |-> call.args[1].sourcePath,
     fork |-> call.args[1].fork, version |-> SelectedVersion(call.args[1].version),
     build |-> "null", port |-> DefaultPort, memoryMb |-> call.mem,
     motd |-> ImportMotd(call.args[1].motd, sanitizeServerName(call.name))]

(* the call: the validations, then await isDirectory(resolvedSourcePath);
   version is <<>> when the caller passes none, motd is the motd
   readServerProperties finds in the source directory, <<>> for none *)
ImportCallWith(name, sourcePath, fork, memoryMb, version, motd) ==
    /\ ncalls < MaxCreates
    /\ ncalls' = ncalls + 1
    /\ LET call == [NewCall("import", name, <<memoryMb>>) EXCEPT
                        !.args = <<[fork |-> fork, sourcePath |-> sourcePath,
                                    version |-> version, motd |-> motd]>>]
           rejected == ImportRejects(name, fork, memoryMb)
       IN  Step(One(IF rejected # "" THEN Threw(call, rejected)
                    ELSE [call EXCEPT !.pc = "srcdir"]))
    /\ UNCHANGED <<fs, running, procs, nstops, now, ndata, hist, wizardSessionByUser>>

(* importServer without a version, from a source without a motd *)
ImportCall(name, sourcePath, fork, memoryMb) ==
    ImportCallWith(name, sourcePath, fork, memoryMb, <<>>, <<>>)

(* isDirectory answered; then await exists(jarPath) *)
ImportSourceChecked(c) ==
    /\ calls[c].op = "import" /\ calls[c].pc = "srcdir"
    /\ Step(One(IF IsDirectory(fs, Key(c), calls[c].args[1].sourcePath)
                THEN [calls[c] EXCEPT !.pc = "srcjar"]
                ELSE Threw(calls[c], "NotADirectory")))
    /\ UNCHANGED <<fs, running, procs, ncalls, nstops, now, ndata, hist, wizardSessionByUser>>

(* exists(jarPath) answered; then await readServerProperties, and after it
   await exists(serverConfigDir) *)
ImportJarChecked(c) ==
    /\ calls[c].op = "import" /\ calls[c].pc = "srcjar"
    /\ Step(One(IF SourceHasJar(fs, Key(c), calls[c].args[1].sourcePath)
                THEN [calls[c] EXCEPT !.pc = "dircheck"]
                ELSE Threw(calls[c], "JarNotFound")))
    /\ UNCHANGED <<fs, running, procs, ncalls, nstops, now, ndata, hist, wizardSessionByUser>>

(* exists(serverConfigDir) answered: when the directory exists, await
   exists(configPath); when it does not, neither check of lines 290-299
   applies and fs.mkdir(serverConfigDir, {recursive: true}) is awaited *)
ImportDirChecked(c) ==
    /\ calls[c].op = "import" /\ calls[c].pc = "dircheck"
    /\ Step(One([calls[c] EXCEPT !.pc = IF DirExists(fs, Key(c)) THEN "cfgcheck"
                                        ELSE "mkdir"]))
    /\ UNCHANGED <<fs, running, procs, ncalls, nstops, now, ndata, hist, wizardSessionByUser>>

(* exists(configPath) answered, serverConfigDirExists being true: already
   managed, or a different directory under the alias, or on to the mkdir *)
ImportConfigChecked(c) ==
    /\ calls[c].op = "import" /\ calls[c].pc = "cfgcheck"
    /\ Step(One(IF FileExists(fs, Key(c), ConfigFile)
                THEN Threw(calls[c], "AlreadyManaged")
                ELSE IF calls[c].args[1].sourcePath # "self"
                THEN Threw(calls[c], "DifferentDirectory")
                ELSE [calls[c] EXCEPT !.pc = "mkdir"]))
    /\ UNCHANGED <<fs, running, procs, ncalls, nstops, now, ndata, hist, wizardSessionByUser>>

(* fs.mkdir(serverConfigDir, {recursive: true}) answered; the config object
   is built; writeServerConfig awaits its own recursive mkdir *)
ImportMkdir(c, ok) ==
    /\ calls[c].op = "import" /\ calls[c].pc = "mkdir"
    /\ IF ok
       THEN /\ fs' = MakeDirRecursive(fs, Key(c), c)
            /\ Step(One([calls[c] EXCEPT !.pc = "cfgdir",
                                         !.config = <<ImportConfig(calls[c])>>]))
       ELSE /\ fs' = fs
            /\ Step(One(Threw(calls[c], "WriteFailed")))
    /\ UNCHANGED <<running, procs, ncalls, nstops, now, ndata, hist, wizardSessionByUser>>

(* writeServerConfig: mkdir {recursive: true} answered; then await
   writeFile(bot-config.json) *)
ImportConfigDir(c, ok) ==
    /\ calls[c].op = "import" /\ calls[c].pc = "cfgdir"
    /\ IF ok
       THEN /\ fs' = MakeDirRecursive(fs, Key(c), c)
            /\ Step(One([calls[c] EXCEPT !.pc = "cfgwrite"]))
       ELSE /\ fs' = fs
            /\ Step(One(Threw(calls[c], "WriteFailed")))
    /\ UNCHANGED <<running, procs, ncalls, nstops, now, ndata, hist, wizardSessionByUser>>

(* writeServerConfig: the record is written and importServer returns it *)
ImportConfigWritten(c, ok) ==
    /\ calls[c].op = "import" /\ calls[c].pc = "cfgwrite"
    /\ IF ok /\ DirExists(fs, Key(c))
       THEN /\ fs' = [PutFile(fs, Key(c), ConfigFile) EXCEPT ![Key(c)].config =
                         calls[c].config]
            /\ Step(One(Returned(calls[c])))
       ELSE /\ fs' = fs
            /\ Step(One(Threw(calls[c], "WriteFailed")))
    /\ UNCHANGED <<running, procs, ncalls, nstops, now, ndata, hist, wizardSessionByUser>>

(* createServer and importServer on one registry, nothing else touching it *)
RegistryNext ==
    \/ \E name \in NameInputs, fork \in ForkInputs, port \in PortInputs,
          memoryMb \in CreateMemInputs : CreateCall(name, fork, port, memoryMb)
    \/ \E c \in DOMAIN calls, ok \in BOOLEAN : CreateMkdir(c, ok)
    \/ \E c \in DOMAIN calls, ok \in BOOLEAN : CreateResolved(c, ok)
    \/ \E c \in DOMAIN calls, ok \in BOOLEAN : CreateFetched(c, ok)
    \/ \E c \in DOMAIN calls, ok \in BOOLEAN : CreatePiped(c, ok)
    \/ \E c \in DOMAIN calls, ok \in BOOLEAN : CreateWrote(c, ok)
    \/ \E c \in DOMAIN calls, ok \in BOOLEAN : CreateConfigDir(c, ok)
    \/ \E c \in DOMAIN calls, ok \in BOOLEAN : CreateConfigWritten(c, ok)
    \/ \E c \in DOMAIN calls, ok \in BOOLEAN : CreateCleanup(c, ok)
    \/ \E name \in NameInputs, sourcePath \in SourceInputs, fork \in ForkInputs,
          memoryMb \in CreateMemInputs : ImportCall(name, sourcePath, fork, memoryMb)
    \/ \E c \in DOMAIN calls : ImportSourceChecked(c)
    \/ \E c \in DOMAIN calls : ImportJarChecked(c)
    \/ \E c \in DOMAIN calls : ImportDirChecked(c)
    \/ \E c \in DOMAIN calls : ImportConfigChecked(c)
    \/ \E c \in DOMAIN calls, ok \in BOOLEAN : ImportMkdir(c, ok)
    \/ \E c \in DOMAIN calls, ok \in BOOLEAN : ImportConfigDir(c, ok)
    \/ \E c \in DOMAIN calls, ok \in BOOLEAN : ImportConfigWritten(c, ok)

RegistrySpec == CreateInit /\ [][RegistryNext]_vars

----------------------------------------------------------------------------
(* createServer and importServer with a version and a motd, on a registry
   whose directory may have been left by an earlier run: absent, empty, or
   holding server.jar alone *)

MaxPersists == 1

(* version specifiers: "latest" in another case and with blanks around it,
   and a version upstream lists *)
CreateVersionInputs == {<<" ", "L", "a", "t", "e", "s", "t", " ">>, Dotted(<<1, 20>>)}
ImportVersionInputs == {<<>>, <<" ", "l", "a", "t", "e", "s", "t", " ">>}

(* motd inputs of createServer: none, and one with a line feed *)
CreateMotdInputs == {<<>>, <<"a", "\n", "b">>}

(* the motd of the properties file of the imported directory: none, and
   one with a carriage return inside *)
SourceMotds == {<<>>, <<<<"a", "\r", "b">>>>}

PersistInit ==
    /\ fs \in [Names -> {NoDir, EmptyDir, JarOnlyDir}]
    /\ running = EmptyMap
    /\ procs = <<>>
    /\ calls = EmptyMap
    /\ settled = {}
    /\ ncalls = 0
    /\ nstops = 0
    /\ now = 0
    /\ ndata = 0
    /\ hist = <<>>
    /\ wizardSessionByUser = EmptyMap

PersistNext ==
    \/ ncalls < MaxPersists
         /\ \E version \in CreateVersionInputs, motd \in CreateMotdInputs :
               CreateCallWith(GoodName, "paper", DefaultPort, 1024, version, motd)
    \/ ncalls < MaxPersists
         /\ \E sourcePath \in {"ext", "self"}, version \in ImportVersionInputs,
               motd \in SourceMotds :
               ImportCallWith(GoodName, sourcePath, "paper", 1024, version, motd)
    \/ \E c \in DOMAIN calls, ok \in BOOLEAN : CreateMkdir(c, ok)
    \/ \E c \in DOMAIN calls, ok \in BOOLEAN : CreateResolved(c, ok)
    \/ \E c \in DOMAIN calls, ok \in BOOLEAN : CreateFetched(c, ok)
    \/ \E c \in DOMAIN calls, ok \in BOOLEAN : CreatePiped(c, ok)
    \/ \E c \in DOMAIN calls, ok \in BOOLEAN : CreateWrote(c, ok)
    \/ \E c \in DOMAIN calls, ok \in BOOLEAN : CreateConfigDir(c, ok)
    \/ \E c \in DOMAIN calls, ok \in BOOLEAN : CreateConfigWritten(c, ok)
    \/ \E c \in DOMAIN calls, ok \in BOOLEAN : CreateCleanup(c, ok)
    \/ \E c \in DOMAIN calls : ImportSourceChecked(c)
    \/ \E c \in DOMAIN calls : ImportJarChecked(c)
    \/ \E c \in DOMAIN calls : ImportDirChecked(c)
    \/ \E c \in DOMAIN calls : ImportConfigChecked(c)
    \/ \E c \in DOMAIN calls, ok \in BOOLEAN : ImportMkdir(c, ok)
    \/ \E c \in DOMAIN calls, ok \in BOOLEAN : ImportConfigDir(c, ok)
    \/ \E c \in DOMAIN calls, ok \in BOOLEAN : ImportConfigWritten(c, ok)

PersistSpec == PersistInit /\ [][PersistNext]_vars

----------------------------------------------------------------------------
(* The version comparator applied to dotted version strings *)

SegmentValues == {0, 1, 9, 10}

SegmentLists == UNION {[1..n -> SegmentValues] : n \in 1..MaxSegments}

PickVersions ==
    {Dotted(<<1, 9>>), Dotted(<<1, 10>>), Dotted(<<1, 10, 0>>), Dotted(<<1, 10, 1>>)}

VersionLists == UNION {[1..n -> PickVersions] : n \in 0..MaxVersions}

(* compareMcVersion(a, b) is called, once in a behaviour, on the version
   strings written from the segment lists x and y *)
Compare(x, y) ==
    /\ settled = {}
    /\ settled' = {[op |-> "compare", x |-> x, y |-> y,
                    a |-> Dotted(x), b |-> Dotted(y),
                    result |-> compareMcVersion(Dotted(x), Dotted(y))]}
    /\ UNCHANGED <<fs, running, procs, calls, ncalls, nstops, now, ndata, hist, wizardSessionByUser>>

(* pickLatestMcVersion(versions) is called, once in a behaviour *)
Pick(versions) ==
    /\ settled = {}
    /\ settled' = {[op |-> "pick", versions |-> versions,
                    result |-> pickLatestMcVersion(versions)]}
    /\ UNCHANGED <<fs, running, procs, calls, ncalls, nstops, now, ndata, hist, wizardSessionByUser>>

VersionNext ==
    \/ settled = {} /\ \E x \in SegmentLists, y \in SegmentLists : Compare(x, y)
    \/ settled = {} /\ \E versions \in VersionLists : Pick(versions)

VersionSpec == CreateInit /\ [][VersionNext]_vars

(* writeServerConfig followed by readServerConfig on one name.  A config is a
   record of optional fields (<<>> absent, <<v>> present); the record file
   holds the JSON text, modelled as the sequence of its members. *)

ConfigKeys ==
    <<"source", "fork", "version", "build", "port", "memoryMb", "motd",
      "serverPath", "jarFile">>

(* the values a caller may put in each field; "", 0 and the empty motd are
   the falsy ones, "null" is the JSON null *)
ConfigValues ==
    [source |-> {"", "imported"}, fork |-> {"", "paper"},
     version |-> {"", "1.21"}, build |-> {"null", "", "130"},
     port |-> {0, 30000}, memoryMb |-> {0, 4096},
     motd |-> {<<>>, <<"h", "i">>}, serverPath |-> {"self", "ext"},
     jarFile |-> {"", "paper.jar"}]

Optional(S) == {<<>>} \cup {<<v>> : v \in S}

ConfigInputs ==
    [source : Optional(ConfigValues.source), fork : Optional(ConfigValues.fork),
     version : Optional(ConfigValues.version), build : Optional(ConfigValues.build),
     port : Optional(ConfigValues.port), memoryMb : Optional(ConfigValues.memoryMb),
     motd : Optional(ConfigValues.motd),
     serverPath : Optional(ConfigValues.serverPath),
     jarFile : Optional(ConfigValues.jarFile)]

(* JSON.stringify(config): one member per field that is not undefined *)
RECURSIVE StringifyFrom(_, _)
StringifyFrom(config, i) ==
    IF i > Len(ConfigKeys) THEN <<>>
    ELSE LET key == ConfigKeys[i]
         IN  (IF config[key] = <<>> THEN <<>>
              ELSE <<[key |-> key, value |-> config[key][1]]>>)
             \o StringifyFrom(config, i + 1)

Stringify(config) == StringifyFrom(config, 1)

(* JSON.parse(content) followed by parsed.key: undefined (<<>>) for a key
   the text has no member for *)
Member(content, key) ==
    LET at == {i \in 1..Len(content) : content[i].key = key}
    IN  IF at = {} THEN <<>> ELSE <<content[CHOOSE i \in at : TRUE].value>>

(* value ?? fallback *)
Nullish(member, fallback) ==
    IF member = <<>> THEN fallback
    ELSE IF member[1] = "null" THEN fallback ELSE member[1]

(* path.isAbsolute(parsed.serverPath || "") ? parsed.serverPath
   : path.resolve(serverConfigDir, parsed.serverPath || "."); "self" is the
   absolute path of the registry directory *)
ResolvedServerPath(content) == OrElse(Member(content, "serverPath"), "", "self")

ParsedRecordMut(content, sanitized) ==
    [name |-> sanitized,
     source |-> OrElse(Member(content, "source"), "",
                       IF ResolvedServerPath(content) = "self"
                       THEN "created" ELSE "imported"),
     fork |-> OrElse(Member(content, "fork"), "", "vanilla"),
     version |-> OrElse(Member(content, "version"), "", "unknown"),
     build |-> Nullish(Member(content, "build"), "null"),
     memoryMb |-> OrElse(Member(content, "memoryMb"), 0, DefaultMemoryMb),
     port |-> DefaultPort,
     motd |-> OrElse(Member(content, "motd"), <<>>, sanitized),
     serverPath |-> ResolvedServerPath(content),
     jarFile |-> OrElse(Member(content, "jarFile"), "", JarFile)]

(* the object readServerConfig returns for the text of a record file *)
ParsedRecord(content, sanitized) ==
    [name |-> sanitized,
     source |-> OrElse(Member(content, "source"), "",
                       IF ResolvedServerPath(content) = "self"
                       THEN "created" ELSE "imported"),
     fork |-> OrElse(Member(content, "fork"), "", "vanilla"),
     version |-> OrElse(Member(content, "version"), "", "unknown"),
     build |-> Nullish(Member(content, "build"), "null"),
     memoryMb |-> OrElse(Member(content, "memoryMb"), 0, DefaultMemoryMb),
     port |-> OrElse(Member(content, "port"), 0, DefaultPort),
     motd |-> OrElse(Member(content, "motd"), <<>>, sanitized),
     serverPath |-> ResolvedServerPath(content),
     jarFile |-> OrElse(Member(content, "jarFile"), "", JarFile)]

(* writeServerConfig(name, config): mkdir recursive, then the record file *)
writeServerConfig(f, name, config) ==
    LET sanitized == sanitizeServerName(name)
        made == MakeDirRecursive(f, sanitized, 0)
    IN  [PutFile(made, sanitized, ConfigFile)
            EXCEPT ![sanitized].config = <<Stringify(config)>>]

(* readServerConfig(name) of a record file holding JSON text *)
ReadRecord(f, name) ==
    LET sanitized == sanitizeServerName(name)
    IN  IF ~FileExists(f, sanitized, ConfigFile) THEN <<>>
        ELSE <<ParsedRecord(f[sanitized].config[1], sanitized)>>

(* the names the round trip is made under: as sanitized, and with blanks
   around it *)
RoundTripNames == {GoodName, <<" ">> \o GoodName \o <<" ">>}

WriteThenRead(name, config) ==
    /\ settled = {}
    /\ fs' = writeServerConfig(fs, name, config)
    /\ settled' = {[op |-> "roundtrip", name |-> name, config |-> config,
                    result |-> ReadRecord(fs', name)]}
    /\ UNCHANGED <<running, procs, calls, ncalls, nstops, now, ndata, hist, wizardSessionByUser>>

ConfigNext ==
    settled = {} /\ \E name \in RoundTripNames, config \in ConfigInputs :
                        WriteThenRead(name, config)

ConfigSpec == CreateInit /\ [][ConfigNext]_vars

----------------------------------------------------------------------------

(* resolveManagedServer on a registry directory without a record file.  The
   directory record of this section carries the text of server.properties
   (properties) and the lines it was written from (written). *)

MaxPropLines == 2

PropertiesFile == "server.properties"
KeyServerPort == <<"s", "e", "r", "v", "e", "r", "-", "p", "o", "r", "t">>
KeyMotd == <<"m", "o", "t", "d">>

RECURSIVE ReplaceAll(_, _, _)
(* String.replaceAll(pattern, replacement) for a pattern of two characters *)
ReplaceAll(s, pattern, replacement) ==
    IF Len(s) < 2 THEN s
    ELSE IF s[1] = pattern[1] /\ s[2] = pattern[2]
         THEN replacement \o ReplaceAll(SubSeq(s, 3, Len(s)), pattern, replacement)
         ELSE <<s[1]>> \o ReplaceAll(Tail(s), pattern, replacement)

unescapePropertyValueMut(value) == value

unescapePropertyValue(value) ==
    ReplaceAll(ReplaceAll(ReplaceAll(value, <<"\\", ":">>, <<":">>),
                          <<"\\", "=">>, <<"=">>),
               <<"\\", "n">>, <<" ">>)

(* String.indexOf("="), counted from 1; 0 when there is none *)
IndexOfEquals(line) ==
    LET at == {i \in 1..Len(line) : line[i] = "="}
    IN  IF at = {} THEN 0 ELSE CHOOSE i \in at : \A j \in at : i <= j

(* the body of the loop of readServerProperties for one raw line *)
PropertyLine(result, rawLine) ==
    LET line == Trim(rawLine)
        delimiterIndex == IndexOfEquals(line)
        key == Trim(SubSeq(line, 1, delimiterIndex - 1))
        value == Trim(SubSeq(line, delimiterIndex + 1, Len(line)))
    IN  IF Len(line) = 0 \/ line[1] = "#" \/ line[1] = "!" THEN result
        ELSE IF delimiterIndex <= 1 THEN result
        ELSE IF key = KeyServerPort
             THEN (IF ParseInt(value) = <<>> THEN result
                   ELSE [result EXCEPT !.port = ParseInt(value)])
        ELSE IF key = KeyMotd
             THEN [result EXCEPT !.motd = <<unescapePropertyValue(value)>>]
        ELSE result

RECURSIVE PropertyLines(_, _)
PropertyLines(result, lines) ==
    IF Len(lines) = 0 THEN result
    ELSE PropertyLines(PropertyLine(result, Head(lines)), Tail(lines))

(* readServerProperties(serverPath): {} without the file; port and motd are
   <<>> when the object has no such key *)
readServerProperties(f, n) ==
    IF ~FileExists(f, n, PropertiesFile) THEN [port |-> <<>>, motd |-> <<>>]
    ELSE PropertyLines([port |-> <<>>, motd |-> <<>>], SplitLines(f[n].properties))

(* the config of the legacy record, lines 601-612 *)
LegacyRecord(legacyServerProperties, sanitized) ==
    [name |-> sanitized, source |-> "legacy", fork |-> "vanilla",
     version |-> Unknown, build |-> "null",
     port |-> OrElse(legacyServerProperties.port, 0, DefaultPort),
     memoryMb |-> DefaultMemoryMb,
     motd |-> OrElse(legacyServerProperties.motd, <<>>, sanitized),
     serverPath |-> "self", jarFile |-> JarFile, createdAt |-> "null"]

(* the lines a properties file may hold, each with what it says about the
   port and the motd *)
PropertyLineInputs ==
    {[text |-> <<"s", "e", "r", "v", "e", "r", "-", "p", "o", "r", "t", "=", "2", "5", "5", "7", "0">>,
      port |-> <<25570>>, motd |-> <<>>],
     [text |-> <<"m", "o", "t", "d", "=", "a", "\\", ":", "b">>,
      port |-> <<>>, motd |-> <<<<"a", ":", "b">>>>],
     [text |-> <<"#", " ", "m", "o", "t", "d", "=", "x">>,
      port |-> <<>>, motd |-> <<>>],
     [text |-> <<"m", "o", "t", "d", "=">>,
      port |-> <<>>, motd |-> << <<>> >>],
     [text |-> <<"s", "e", "r", "v", "e", "r", "-", "p", "o", "r", "t", "=", "0">>,
      port |-> <<0>>, motd |-> <<>>],
     [text |-> <<" ", "m", "o", "t", "d", " ", "=", " ", "h", "i", " ">>,
      port |-> <<>>, motd |-> <<<<"h", "i">>>>],
     [text |-> <<"s", "e", "r", "v", "e", "r", "-", "p", "o", "r", "t", "=", "a", "b", "c">>,
      port |-> <<>>, motd |-> <<>>],
     [text |-> <<"s", "e", "r", "v", "e", "r", "-", "p", "o", "r", "t", "=", "8", "0">>,
      port |-> <<80>>, motd |-> <<>>]}

PropertyFiles == UNION {[1..k -> PropertyLineInputs] : k \in 0..MaxPropLines}

TextOf(written) == [i \in 1..Len(written) |-> written[i].text]

LegacyDirs ==
    {[dir |-> <<0>>, files |-> {JarFile}, config |-> <<>>,
      properties |-> <<>>, written |-> <<>>],
     [dir |-> <<0>>, files |-> {}, config |-> <<>>,
      properties |-> <<>>, written |-> <<>>]}
    \cup {[dir |-> <<0>>, files |-> jar \cup {PropertiesFile}, config |-> <<>>,
           properties |-> JoinLines(TextOf(written), eol, ended),
           written |-> written] :
             jar \in {{}, {JarFile}}, written \in PropertyFiles,
             eol \in Eols, ended \in BOOLEAN}

LegacyInit ==
    /\ fs \in [Names -> LegacyDirs]
    /\ running = EmptyMap
    /\ procs = <<>>
    /\ calls = EmptyMap
    /\ settled = {}
    /\ ncalls = 0
    /\ nstops = 0
    /\ now = 0
    /\ ndata = 0
    /\ hist = <<>>
    /\ wizardSessionByUser = EmptyMap

(* resolveManagedServer(name) where no record file exists *)
ResolveLegacy(name) ==
    LET sanitized == sanitizeServerName(name)
        managed == resolveManagedServer(fs, sanitized)
    IN  /\ settled = {}
        /\ settled' =
              {[op |-> "resolve", name |-> sanitized,
                result |-> IF managed = <<>> THEN <<>>
                           ELSE <<[jarExists |-> managed[1].jarExists,
                                   config |-> LegacyRecord(
                                       readServerProperties(fs, sanitized),
                                       sanitized)]>>]}
        /\ UNCHANGED <<fs, running, procs, calls, ncalls, nstops, now, ndata, hist, wizardSessionByUser>>

LegacyNext == settled = {} /\ \E name \in RoundTripNames : ResolveLegacy(name)

LegacySpec == LegacyInit /\ [][LegacyNext]_vars

----------------------------------------------------------------------------

(* listServersDetailed over a base directory whose subdirectories were put
   there before the manager started *)

MaxLists == 1

DirPadded == <<" ">> \o GoodName
DirUpper == <<"S", "a", "1">>
DirUnderscore == <<"s", "_", "1">>

(* the names of the entries of the base directory *)
DirNames == {GoodName, DirPadded, DirUpper, DirUnderscore, BadName}

(* the primary order of the default collation on the characters of a name:
   punctuation, then digits, then letters without regard to case *)
CollationOrder == <<"_", "-">> \o DigitChars \o LowerChars

PrimaryRank(ch) == CHOOSE i \in 1..Len(CollationOrder) : CollationOrder[i] = Lower(ch)

RECURSIVE ComparePrimary(_, _)
ComparePrimary(a, b) ==
    IF Len(a) = 0 /\ Len(b) = 0 THEN 0
    ELSE IF Len(a) = 0 THEN -1
    ELSE IF Len(b) = 0 THEN 1
    ELSE IF PrimaryRank(a[1]) < PrimaryRank(b[1]) THEN -1
    ELSE IF PrimaryRank(a[1]) > PrimaryRank(b[1]) THEN 1
    ELSE ComparePrimary(Tail(a), Tail(b))

RECURSIVE CompareCase(_, _)
(* between names equal but for case: lower case first at the first
   difference *)
CompareCase(a, b) ==
    IF Len(a) = 0 THEN 0
    ELSE IF a[1] = b[1] THEN CompareCase(Tail(a), Tail(b))
    ELSE IF IsUpper(b[1]) THEN -1 ELSE 1

(* a.localeCompare(b) on names *)
localeCompare(a, b) ==
    IF ComparePrimary(a, b) # 0 THEN ComparePrimary(a, b) ELSE CompareCase(a, b)

RECURSIVE InsertByName(_, _)
InsertByName(sorted, item) ==
    IF Len(sorted) = 0 THEN <<item>>
    ELSE IF localeCompare(item.name, sorted[1].name) < 0 THEN <<item>> \o sorted
    ELSE <<sorted[1]>> \o InsertByName(Tail(sorted), item)

RECURSIVE SortByName(_)
(* servers.sort((a, b) => a.name.localeCompare(b.name)), a stable sort *)
SortByName(servers) ==
    IF Len(servers) = 0 THEN <<>>
    ELSE InsertByName(SortByName(SubSeq(servers, 1, Len(servers) - 1)),
                      servers[Len(servers)])

(* the orders in which readdir may give the entries *)
Orders(S) ==
    {s \in [1..Cardinality(S) -> S] : \A i, j \in DOMAIN s : i # j => s[i] # s[j]}

ListInit ==
    /\ fs \in {f \in [DirNames -> {NoDir, EmptyDir, JarOnlyDir}] :
                  /\ f[DirPadded] # JarOnlyDir
                  /\ f[BadName] # JarOnlyDir}
    /\ \E tracked \in SUBSET {GoodName, DirUpper} :
          /\ running = [n \in tracked |-> [process |-> 1, startedAt |-> 0, logs |-> <<>>]]
          /\ procs = IF tracked = {} THEN <<>>
                     ELSE <<[NewChild(CHOOSE n \in tracked : TRUE) EXCEPT !.st = "alive"]>>
    /\ calls = EmptyMap
    /\ settled = {}
    /\ ncalls = 0
    /\ nstops = 0
    /\ now = 0
    /\ ndata = 0
    /\ hist = <<>>
    /\ wizardSessionByUser = EmptyMap

(* the call: await fs.readdir(this.baseDir) *)
ListCall ==
    /\ ncalls < MaxLists
    /\ ncalls' = ncalls + 1
    /\ Step(One([NewCall("list", <<>>, <<>>) EXCEPT !.pc = "readdir"]))
    /\ UNCHANGED <<fs, running, procs, nstops, now, ndata, hist, wizardSessionByUser>>

(* the entries the loop awaits resolveManagedServer for: the directories
   whose trimmed name passes sanitizeServerName; the others are skipped
   with continue *)
Listable(entries) == SelectSeq(entries, NameOk)

(* the item pushed for a managed name; fork and version are copied from the
   record in the same way as source *)
ListItem(serverName, managed, run) ==
    [name |-> serverName, source |-> managed.config.source,
     running |-> Has(run, serverName)]

(* readdir answered: the loop runs up to its first await, or to the end *)
ListReaddir(c, entries) ==
    /\ calls[c].op = "list" /\ calls[c].pc = "readdir"
    /\ Step(One(IF Len(Listable(entries)) = 0
                THEN Returned([calls[c] EXCEPT !.result = << <<>> >>])
                ELSE [calls[c] EXCEPT !.pc = "resolve",
                         !.args = <<[entries |-> Listable(entries), servers |-> <<>>]>>]))
    /\ UNCHANGED <<fs, running, procs, ncalls, nstops, now, ndata, hist, wizardSessionByUser>>

(* resolveManagedServer answered for the entry at hand: push, then on to the
   next entry, or sort and return after the last one *)
ListResolved(c) ==
    /\ calls[c].op = "list" /\ calls[c].pc = "resolve"
    /\ LET entries == calls[c].args[1].entries
           serverName == sanitizeServerName(Head(entries))
           managed == resolveManagedServer(fs, serverName)
           servers == IF Len(managed) = 0 THEN calls[c].args[1].servers
                      ELSE Append(calls[c].args[1].servers,
                                  ListItem(serverName, managed[1], running))
       IN  Step(One(IF Len(entries) = 1
                    THEN Returned([calls[c] EXCEPT !.result = <<SortByName(servers)>>])
                    ELSE [calls[c] EXCEPT
                             !.args = <<[entries |-> Tail(entries), servers |-> servers]>>]))
    /\ UNCHANGED <<fs, running, procs, ncalls, nstops, now, ndata, hist, wizardSessionByUser>>

ListNext ==
    \/ ListCall
    \/ \E c \in DOMAIN calls,
          entries \in Orders({d \in DirNames : DirExists(fs, d)}) :
              ListReaddir(c, entries)
    \/ \E c \in DOMAIN calls : ListResolved(c)

ListSpec == ListInit /\ [][ListNext]_vars

----------------------------------------------------------------------------

(* The output of one tracked child, written as a stream and delivered to
   the data listener in chunks.  hist holds the chunks written and not yet
   delivered, settled the stream they are the pieces of. *)

MaxChunks == 3

(* what the child writes: the text, and the complete lines it consists of *)
OutputStreams ==
    {[text |-> <<"a", "b", "\r", "\n", "c", "\n">>,
      lines |-> <<<<"a", "b">>, <<"c">>>>],
     [text |-> <<"a", "\n", "\n", "b", "c", "\n">>,
      lines |-> <<<<"a">>, <<"b", "c">>>>],
     [text |-> <<"a", "b", "c", "\n">>,
      lines |-> <<<<"a", "b", "c">>>>],
     [text |-> <<"a", "\r", "\n", "b", "\r", "\n">>,
      lines |-> <<<<"a">>, <<"b">>>>]}

(* the places at which a stream of the given length is cut into at most
   MaxChunks chunks, none of them empty *)
CutSets(len) == {cuts \in SUBSET (1..(len - 1)) : Cardinality(cuts) < MaxChunks}

RECURSIVE ChunksFrom(_, _, _)
(* the pieces of text from position lo on, cut after each position of cuts *)
ChunksFrom(text, lo, cuts) ==
    IF \A k \in cuts : k < lo THEN <<SubSeq(text, lo, Len(text))>>
    ELSE LET k == CHOOSE x \in cuts : x >= lo /\ \A y \in cuts : y >= lo => x <= y
         IN  <<SubSeq(text, lo, k)>> \o ChunksFrom(text, k + 1, cuts)

(* the child writes a stream, which reaches the pipe in chunks *)
WriteStream(stream, cuts) ==
    /\ settled = {} /\ hist = <<>>
    /\ hist' = ChunksFrom(stream.text, 1, cuts)
    /\ UNCHANGED wizardSessionByUser
    /\ settled' = {[op |-> "stream", stream |-> stream]}
    /\ UNCHANGED <<fs, running, procs, calls, ncalls, nstops, now, ndata>>

(* child.stdout.on("data", chunk => this.appendLogs(serverName, chunk)) for
   the next chunk *)
ChunkEvent ==
    /\ hist # <<>>
    /\ running' = appendLogs(running, TrackedName, Head(hist), now)
    /\ hist' = Tail(hist)
    /\ UNCHANGED wizardSessionByUser
    /\ now' = now + 1
    /\ UNCHANGED <<fs, procs, calls, settled, ncalls, nstops, ndata>>

ChunkNext ==
    \/ settled = {} /\ \E stream \in OutputStreams :
                           \E cuts \in CutSets(Len(stream.text)) :
                               WriteStream(stream, cuts)
    \/ ChunkEvent

ChunkSpec == LogInit /\ [][ChunkNext]_vars

----------------------------------------------------------------------------

(* The build selection of resolvePaperBuild.  An entry of the upstream build
   list is a bare number (bare) or an object with a build and a channel;
   build is <<>> when the value is not an integer. *)

MaxBuilds == 3

BuildEntries ==
    {[bare |-> TRUE, build |-> <<2>>, channel |-> ""],
     [bare |-> FALSE, build |-> <<1>>, channel |-> "default"],
     [bare |-> FALSE, build |-> <<12>>, channel |-> "default"],
     [bare |-> FALSE, build |-> <<3>>, channel |-> "experimental"],
     [bare |-> FALSE, build |-> <<20>>, channel |-> "experimental"]}

BuildLists == UNION {[1..n -> BuildEntries] : n \in 0..MaxBuilds}

(* typeof buildEntry === "number" ? {build: buildEntry, channel: "default"}
   : buildEntry, then filter(Number.isInteger(buildEntry.build)) *)
NormalizedBuilds(rawBuilds) ==
    SelectSeq([i \in 1..Len(rawBuilds) |->
                  IF rawBuilds[i].bare
                  THEN [build |-> rawBuilds[i].build, channel |-> "default"]
                  ELSE [build |-> rawBuilds[i].build, channel |-> rawBuilds[i].channel]],
              LAMBDA buildEntry : Len(buildEntry.build) = 1)

CandidateBuildsMut(normalizedBuilds) == normalizedBuilds

(* the default-channel entries when there is one, else all entries *)
CandidateBuilds(normalizedBuilds) ==
    LET defaultChannelBuilds ==
            SelectSeq(normalizedBuilds, LAMBDA buildEntry : buildEntry.channel = "default")
    IN  IF Len(defaultChannelBuilds) > 0 THEN defaultChannelBuilds ELSE normalizedBuilds

RECURSIVE InsertByBuild(_, _)
InsertByBuild(sorted, buildEntry) ==
    IF Len(sorted) = 0 THEN <<buildEntry>>
    ELSE IF buildEntry.build[1] - sorted[1].build[1] < 0 THEN <<buildEntry>> \o sorted
    ELSE <<sorted[1]>> \o InsertByBuild(Tail(sorted), buildEntry)

RECURSIVE SortByBuild(_)
(* [...candidateBuilds].sort((a, b) => a.build - b.build) *)
SortByBuild(builds) ==
    IF Len(builds) = 0 THEN <<>>
    ELSE InsertByBuild(SortByBuild(SubSeq(builds, 1, Len(builds) - 1)),
                       builds[Len(builds)])

(* lines 672-701: the build resolvePaperBuild goes on with, as the string
   it returns it as; <<>> when it throws *)
LatestPaperBuild(rawBuilds) ==
    IF Len(rawBuilds) = 0 THEN <<>>
    ELSE LET sorted == SortByBuild(CandidateBuilds(NormalizedBuilds(rawBuilds)))
         IN  IF Len(sorted) = 0 THEN <<>>
             ELSE <<Decimal(sorted[Len(sorted)].build[1])>>

ResolvePaper(rawBuilds) ==
    /\ settled = {}
    /\ settled' = {[op |-> "paper", builds |-> rawBuilds,
                    result |-> LatestPaperBuild(rawBuilds)]}
    /\ UNCHANGED <<fs, running, procs, calls, ncalls, nstops, now, ndata, hist, wizardSessionByUser>>

PaperNext == settled = {} /\ \E rawBuilds \in BuildLists : ResolvePaper(rawBuilds)

PaperSpec == CreateInit /\ [][PaperNext]_vars

----------------------------------------------------------------------------

----------------------------------------------------------------------------
(* The properties file written and read back: buildServerProperties, the
   write of createServer, then the line loop of readServerProperties. *)

MaxMotdLen == 3

MotdChars == {"a", ":", "=", "\\", "n", " "}

(* motd strings without line breaks *)
MotdInputs == UNION {[1..len -> MotdChars] : len \in 0..MaxMotdLen}

WrittenPorts == {1024, DefaultPort}

WriteThenReadProperties(port, motd) ==
    /\ settled = {}
    /\ settled' = {[op |-> "properties", port |-> port, motd |-> motd,
                    read |-> PropertyLines([port |-> <<>>, motd |-> <<>>],
                                 SplitLines(buildServerProperties(port, motd)
                                                \o <<"\n">>))]}
    /\ UNCHANGED <<fs, running, procs, calls, ncalls, nstops, now, ndata, hist, wizardSessionByUser>>

PropertiesNext ==
    settled = {} /\ \E port \in WrittenPorts : \E motd \in MotdInputs :
                        WriteThenReadProperties(port, motd)

PropertiesSpec == CreateInit /\ [][PropertiesNext]_vars

----------------------------------------------------------------------------
(* The wizard of the bot: one session per user in wizardSessionByUser, moved
   on by the interactions of that user.  A handler runs without interruption
   up to its first await that is followed by code of its own; only the
   confirm handler has one, the manager call, and it is held in calls while
   it waits (the await of interaction.update before it is followed by the
   manager call alone, and is part of the same step).  ncalls numbers the
   confirm handlers.  A session is identified by id, an identity no other
   session referred to at the time has.  Of the clock only what
   pruneSessions asks is kept: whether more than SESSION_TTL_MS went by
   since the session was touched. *)

MaxConfirms == 2

Users == {"u1"}

CREATE_FLOW ==
    <<[field |-> "fork", type |-> "fork_select"],
      [field |-> "name", type |-> "modal_input"],
      [field |-> "version", type |-> "modal_input"],
      [field |-> "port", type |-> "modal_input"],
      [field |-> "memoryMb", type |-> "modal_input"],
      [field |-> "motd", type |-> "modal_input"]>>

IMPORT_FLOW ==
    <<[field |-> "name", type |-> "modal_input"],
      [field |-> "sourcePath", type |-> "modal_input"],
      [field |-> "jarFile", type |-> "modal_input"],
      [field |-> "fork", type |-> "fork_select"],
      [field |-> "version", type |-> "modal_input"],
      [field |-> "memoryMb", type |-> "modal_input"]>>

Modes == {"create", "import"}

(* getFlow(mode), for the two modes a session can hold *)
getFlow(mode) == IF mode = "create" THEN CREATE_FLOW ELSE IMPORT_FLOW

FlowFields(mode) == {getFlow(mode)[i].field : i \in 1..Len(getFlow(mode))}

OtherMode(mode) == IF mode = "create" THEN "import" ELSE "create"

(* the custom ids of answer buttons and modals: those buildQuestionPrompt
   and buildAnswerModal make for a step, and those of the create flow with
   the field the import flow has at that index *)
AnswerIds ==
    {[mode |-> mode, stepIndex |-> i - 1, field |-> getFlow(mode)[i].field] :
        mode \in Modes, i \in 1..Len(CREATE_FLOW)}
    \cup {[mode |-> "create", stepIndex |-> i - 1, field |-> IMPORT_FLOW[i].field] :
              i \in 1..Len(IMPORT_FLOW)}

(* the custom ids of fork menus: buildForkSelect at the fork step of each
   flow, and at the index of the other flow's fork step *)
ForkIds == {[mode |-> mode, stepIndex |-> i] : mode \in Modes, i \in {0, 3}}

(* the custom ids of confirm buttons: buildConfirmationPrompt past the last
   step, and one step early *)
ConfirmIds ==
    {[mode |-> mode, stepIndex |-> i] :
        mode \in Modes, i \in {Len(CREATE_FLOW) - 1, Len(CREATE_FLOW)}}

(* the fork a select menu offers, and the text a modal carries: a value
   the payload parsers accept, or nothing *)
ForkOptions == {"paper", "custom"}
Answers == {"v", ""}

(* the identity of a new object: the first one that neither the map nor a
   handler in flight refers to *)
NewSessionId ==
    LET used == {wizardSessionByUser[u].id : u \in DOMAIN wizardSessionByUser}
                    \cup {calls[c].session : c \in DOMAIN calls}
    IN  CHOOSE i \in 1..(Cardinality(used) + 1) :
            i \notin used /\ \A j \in 1..(i - 1) : j \in used

(* expired: now - session.updatedAt > SESSION_TTL_MS *)
createInitialSession(id) ==
    [id |-> id, mode |-> "null", stepIndex |-> 0, data |-> EmptyMap,
     expired |-> FALSE]

pruneSessions(sessionMap) ==
    [userId \in {u \in DOMAIN sessionMap : ~sessionMap[u].expired}
     |-> sessionMap[userId]]

touchSession(session) == [session EXCEPT !.expired = FALSE]

(* getCurrentStep(session): the step, or none past the end of the flow *)
getCurrentStep(session) ==
    IF session.stepIndex < Len(getFlow(session.mode))
    THEN <<getFlow(session.mode)[session.stepIndex + 1]>>
    ELSE <<>>

assertSessionPositionMut(session, mode, stepIndex, field) ==
    session.mode = mode /\ session.stepIndex = stepIndex

(* assertSessionPosition(session, mode, stepIndex, field) does not throw;
   field is "null" where the caller passes none *)
assertSessionPosition(session, mode, stepIndex, field) ==
    /\ session.mode = mode
    /\ session.stepIndex = stepIndex
    /\ field \notin {"null", ""} =>
           /\ Len(getCurrentStep(session)) = 1
           /\ getCurrentStep(session)[1].field = field

(* normalizeStepValue(field, rawValue) does not throw *)
StepValueOk(field, rawValue) == field = "motd" \/ rawValue # ""

(* parseCreatePayload / parseImportPayload do not throw; the texts of the
   modal answers being acceptable, this is the check of the fork *)
PayloadOk(session) ==
    IF session.mode = "create"
    THEN session.data["fork"] \in CREATE_SUPPORTED_FORKS
    ELSE session.data["fork"] \in CREATE_SUPPORTED_FORKS \cup {"custom"}

(* what of a custom id is out of date against the session of the user:
   nothing, or the first of mode, step index and field that differs from the
   session's position, or the session itself when the user has none *)
Stale(sessionMap, user, mode, stepIndex, field) ==
    IF ~Has(sessionMap, user) THEN "session"
    ELSE IF sessionMap[user].mode # mode THEN "mode"
    ELSE IF sessionMap[user].stepIndex # stepIndex THEN "stepIndex"
    ELSE IF /\ field # "null"
            /\ \/ stepIndex >= Len(getFlow(mode))
               \/ getFlow(mode)[stepIndex + 1].field # field
         THEN "field"
    ELSE "none"

(* the map after the handler, and the handler's outcome with what was out
   of date in the custom id it was given *)
Respond(sessionMap, op, user, stale, pc) ==
    /\ wizardSessionByUser' = sessionMap
    /\ settled' = {[op |-> op, user |-> user, stale |-> stale, pc |-> pc]}

WizardIdle == UNCHANGED <<fs, running, procs, nstops, ndata, hist>>

WizardInit == CreateInit

(* the /mc-wizard command *)
McWizard(user) ==
    /\ Respond(Put(pruneSessions(wizardSessionByUser), user,
                   createInitialSession(NewSessionId)),
               "mc-wizard", user, "none", "returned")
    /\ WizardIdle /\ UNCHANGED <<calls, ncalls, now>>

(* the mode select menu *)
SelectMode(user, mode) ==
    LET sessionMap == pruneSessions(wizardSessionByUser)
    IN  /\ IF Has(sessionMap, user) /\ mode \in Modes
           THEN Respond(Put(sessionMap, user,
                            touchSession([sessionMap[user] EXCEPT
                                             !.mode = mode, !.stepIndex = 0,
                                             !.data = EmptyMap])),
                        "mode", user, "none", "returned")
           ELSE Respond(sessionMap, "mode", user,
                        IF Has(sessionMap, user) THEN "none" ELSE "session", "threw")
        /\ WizardIdle /\ UNCHANGED <<calls, ncalls, now>>

(* the fork select menu *)
SelectFork(user, mode, stepIndex, selectedFork) ==
    LET sessionMap == pruneSessions(wizardSessionByUser)
    IN  /\ IF /\ Has(sessionMap, user)
              /\ assertSessionPosition(sessionMap[user], mode, stepIndex, "fork")
           THEN Respond(Put(sessionMap, user,
                            touchSession([sessionMap[user] EXCEPT
                                !.data = ("fork" :> selectedFork) @@ @,
                                !.stepIndex = @ + 1])),
                        "fork", user, "none", "returned")
           ELSE Respond(sessionMap, "fork", user,
                        Stale(sessionMap, user, mode, stepIndex, "fork"), "threw")
        /\ WizardIdle /\ UNCHANGED <<calls, ncalls, now>>

(* the cancel button *)
Cancel(user) ==
    /\ Respond(Delete(pruneSessions(wizardSessionByUser), user),
               "cancel", user, "none", "returned")
    /\ WizardIdle /\ UNCHANGED <<calls, ncalls, now>>

(* the answer button, which opens the modal *)
AnswerButton(user, mode, field, stepIndex) ==
    LET sessionMap == pruneSessions(wizardSessionByUser)
    IN  /\ IF /\ Has(sessionMap, user)
              /\ assertSessionPosition(sessionMap[user], mode, stepIndex, field)
              /\ Len(getCurrentStep(sessionMap[user])) = 1
              /\ getCurrentStep(sessionMap[user])[1].type = "modal_input"
           THEN Respond(Put(sessionMap, user, touchSession(sessionMap[user])),
                        "answer", user, "none", "returned")
           ELSE Respond(sessionMap, "answer", user,
                        Stale(sessionMap, user, mode, stepIndex, field), "threw")
        /\ WizardIdle /\ UNCHANGED <<calls, ncalls, now>>

(* the submitted modal *)
ModalSubmit(user, mode, field, stepIndex, rawAnswer) ==
    LET sessionMap == pruneSessions(wizardSessionByUser)
    IN  /\ IF /\ Has(sessionMap, user)
              /\ assertSessionPosition(sessionMap[user], mode, stepIndex, field)
              /\ StepValueOk(field, rawAnswer)
           THEN Respond(Put(sessionMap, user,
                            touchSession([sessionMap[user] EXCEPT
                                !.data = (field :> rawAnswer) @@ @,
                                !.stepIndex = @ + 1])),
                        "modal", user, "none", "returned")
           ELSE Respond(sessionMap, "modal", user,
                        Stale(sessionMap, user, mode, stepIndex, field), "threw")
        /\ WizardIdle /\ UNCHANGED <<calls, ncalls, now>>

(* the confirm button, up to the await of the manager call in
   handleWizardConfirm *)
Confirm(user, mode, stepIndex) ==
    LET sessionMap == pruneSessions(wizardSessionByUser)
    IN  /\ ncalls < MaxConfirms
        /\ IF /\ Has(sessionMap, user)
              /\ assertSessionPosition(sessionMap[user], mode, stepIndex, "null")
              /\ Len(getCurrentStep(sessionMap[user])) = 0
           THEN IF PayloadOk(sessionMap[user])
                THEN /\ wizardSessionByUser' =
                            Put(sessionMap, user, touchSession(sessionMap[user]))
                     /\ settled' = {}
                     /\ calls' = Put(calls, ncalls + 1,
                                     [id |-> ncalls + 1, op |-> "confirm",
                                      user |-> user,
                                      session |-> sessionMap[user].id,
                                      mode |-> sessionMap[user].mode,
                                      pc |-> "operation"])
                     /\ ncalls' = ncalls + 1
                ELSE /\ Respond(Put(sessionMap, user, touchSession(sessionMap[user])),
                                "confirm", user, "none", "threw")
                     /\ UNCHANGED <<calls, ncalls>>
           ELSE /\ Respond(sessionMap, "confirm", user,
                        Stale(sessionMap, user, mode, stepIndex, "null"), "threw")
                /\ UNCHANGED <<calls, ncalls>>
        /\ WizardIdle /\ UNCHANGED now

(* the manager call returned or threw: sessionMap.delete(interaction.user.id)
   on either path, then the follow-up message *)
ConfirmDone(c, pc) ==
    /\ calls[c].op = "confirm" /\ calls[c].pc = "operation"
    /\ wizardSessionByUser' = Delete(wizardSessionByUser, calls[c].user)
    /\ calls' = Delete(calls, c)
    /\ settled' = {[calls[c] EXCEPT !.pc = pc]}
    /\ WizardIdle /\ UNCHANGED <<ncalls, now>>

(* more than SESSION_TTL_MS passes without an interaction *)
SessionsExpire ==
    /\ \E u \in DOMAIN wizardSessionByUser : ~wizardSessionByUser[u].expired
    /\ wizardSessionByUser' =
           [u \in DOMAIN wizardSessionByUser |->
               [wizardSessionByUser[u] EXCEPT !.expired = TRUE]]
    /\ settled' = {}
    /\ WizardIdle /\ UNCHANGED <<calls, ncalls, now>>

WizardNext ==
    \/ \E user \in Users : McWizard(user)
    \/ \E user \in Users : \E mode \in Modes \cup {"other"} : SelectMode(user, mode)
    \/ \E user \in Users : \E id \in ForkIds : \E selectedFork \in ForkOptions :
           SelectFork(user, id.mode, id.stepIndex, selectedFork)
    \/ \E user \in Users : Cancel(user)
    \/ \E user \in Users : \E id \in AnswerIds :
           AnswerButton(user, id.mode, id.field, id.stepIndex)
    \/ \E user \in Users : \E id \in AnswerIds : \E rawAnswer \in Answers :
           ModalSubmit(user, id.mode, id.field, id.stepIndex, rawAnswer)
    \/ \E user \in Users : \E id \in ConfirmIds :
           Confirm(user, id.mode, id.stepIndex)
    \/ \E c \in DOMAIN calls : \E pc \in {"returned", "threw"} : ConfirmDone(c, pc)
    \/ SessionsExpire

WizardSpec == WizardInit /\ [][WizardNext]_vars

----------------------------------------------------------------------------
(* Properties of the process supervisor *)

KeyOf(r) == sanitizeServerName(r.name)

StartsInFlight(n) ==
    {c \in DOMAIN calls : calls[c].op = "start" /\ Key(c) = n}

LiveChildren(n) == {ch \in DOMAIN procs : procs[ch].name = n /\ Alive(ch)}

(* the calls that took a step: those now in flight that are new or changed,
   and those that settled *)
Moved ==
    {calls'[c] : c \in {d \in DOMAIN calls' : d \notin DOMAIN calls \/ calls'[d] # calls[d]}}
        \cup settled'

(* C1: of two startServer calls for one name that are in flight together,
   only one gets to spawn a child: never are both awaiting the spawn
   confirmation of a child of their own, and an entry once set is not
   replaced by another call's entry. *)
C1_OverlappingStartsExclusive ==
    [][/\ \A n \in Names : \A c, d \in StartsInFlight(n)' :
              (calls'[c].pc = "spawnwait" /\ calls'[d].pc = "spawnwait") => c = d
       /\ \A n \in Names :
              (Has(running, n) /\ Has(running', n))
                  => running'[n].process = running[n].process]_vars

(* C2: at most one child process of an installation name is alive. *)
C2_OneLiveChildPerName ==
    \A n \in Names : Cardinality(LiveChildren(n)) <= 1

(* C3: a startServer call made after an earlier one returned successfully,
   while that one's process is still running, with no stopServer call made,
   and finding the installation and its jar in place, fails with the
   already-running error, spawns nothing and leaves the map as it is. *)
C3_SecondStartFails ==
    [][\A c \in DOMAIN calls :
          (/\ calls[c].op = "start" /\ calls[c].pc = "jarcheck"
           /\ (c \notin DOMAIN calls' \/ calls'[c] # calls[c])
           /\ \E ch \in calls[c].live : Alive(ch)
           /\ nstops = 0
           /\ FileExists(fs, Key(c), JarFile))
          => (/\ \E r \in settled' : r.id = c /\ r.err = "AlreadyRunning"
              /\ procs' = procs
              /\ running' = running)]_vars

(* C4: no step of a startServer call other than its successful return
   writes the running map: a call that fails, for whatever reason, has
   neither created nor modified an entry. *)
C4_FailedStartLeavesMap ==
    [][((\E r \in Moved : r.op = "start")
          /\ ~(\E r \in settled' : r.op = "start" /\ r.pc = "returned"))
       => running' = running]_vars

C4_Witness ==
    \E r \in settled : /\ r.op = "start" /\ r.err = "SpawnFailed"
                       /\ Has(running, KeyOf(r))

(* C5: when stopServer returns, the name has no tracking entry. *)
C5_StopReturnsUntracked ==
    \A r \in settled :
        (r.op = "stop" /\ r.pc = "returned") => ~Has(running, KeyOf(r))

C5_Witness ==
    \E r \in settled : /\ r.op = "stop" /\ r.pc = "returned" /\ r.killed
                       /\ \E c \in DOMAIN calls : calls[c].op = "start"

(* C6: the stop protocol.  A signal reaches a child only in the step in
   which the timer of a stopServer call on that child fires, the child has
   not exited, and that call wrote the stop line before; a call that sent
   the signal returns only in the step of the child's exit event; a call
   released by the exit event before its timer fired has sent no signal. *)
C6_StopProtocol ==
    [][/\ \A ch \in DOMAIN procs :
              procs'[ch].sigs > procs[ch].sigs
                  => /\ Alive(ch)
                     /\ \E c \in DOMAIN calls :
                            /\ calls[c].op = "stop" /\ calls[c].pc = "race"
                            /\ calls[c].child = ch /\ calls[c].wrote
                            /\ c \in DOMAIN calls' /\ calls'[c].pc = "waitexit"
       /\ \A r \in settled' :
              (r.op = "stop" /\ r.pc = "returned" /\ r.child # 0)
                  => /\ Alive(r.child) /\ procs'[r.child].st = "exited"
                     /\ procs[r.child].stdin > 0
                     /\ r.killed <=> calls[r.id].pc = "waitexit"]_vars

C6_Witness ==
    \E r \in settled : /\ r.op = "stop" /\ r.pc = "returned" /\ r.killed
                       /\ procs[r.child].st = "exited"
                       /\ procs[r.child].sigs > 0

(* C7: every stopServer call that found a tracked process eventually
   returns or throws. *)
C7_StopTerminates ==
    \A c \in 1..MaxCalls :
        (c \in DOMAIN calls /\ calls[c].op = "stop") ~> (c \notin DOMAIN calls)

(* C8: stopServer for a valid name without a tracking entry throws the
   not-running error at once, and the step changes neither the running map
   nor any child (no write to a stdin, no signal). *)
C8_StopUntrackedFails ==
    [][\A r \in Moved :
          (r.op = "stop" /\ r.id = ncalls + 1 /\ NameOk(r.name)
              /\ ~Has(running, KeyOf(r)))
          => (/\ r.pc = "threw" /\ r.err = "NotRunning"
              /\ running' = running
              /\ procs' = procs)]_vars

C8_Witness ==
    \E r \in settled : /\ r.op = "stop" /\ r.err = "NotRunning"
                       /\ \E ch \in DOMAIN procs : procs[ch].st = "exited"

----------------------------------------------------------------------------
(* Properties of the log buffer *)

(* C9: the buffer never holds more than 500 entries, and it holds exactly
   the last min(total, 500) non-empty lines captured, oldest first, each
   with the time of its capture. *)
C9_LogBufferIsTail ==
    \A n \in DOMAIN running :
        /\ Len(running[n].logs) <= MAX_BUFFERED_LINES
        /\ running[n].logs = LastN(hist, MAX_BUFFERED_LINES)

C9_Witness ==
    \E n \in DOMAIN running :
        /\ Len(hist) > MAX_BUFFERED_LINES
        /\ Len(running[n].logs) = MAX_BUFFERED_LINES
        /\ running[n].logs[1].ts # running[n].logs[MAX_BUFFERED_LINES].ts
        /\ hist[1] # running[n].logs[1]

----------------------------------------------------------------------------
(* Properties of createServer *)

FailedAfterMkdir(r) == r.op = "create" /\ r.pc = "threw" /\ r.made

(* C10 as claimed: when createServer throws after it made the registry
   directory, no directory of that name exists. *)
C10_NoResidualDirectory ==
    \A r \in settled : FailedAfterMkdir(r) => ~DirExists(fs, KeyOf(r))

(* C10 as amended: when createServer throws after it made the registry
   directory, the recursive removal of the directory has been attempted;
   when the removal succeeded no directory of that name exists, and only
   when the removal itself failed may the directory remain. *)
C10_NoResidualUnlessCleanupFails ==
    \A r \in settled :
        FailedAfterMkdir(r) =>
            \/ r.removal = "failed"
            \/ r.removal = "done" /\ ~DirExists(fs, KeyOf(r))

C10_Witness ==
    \E r \in settled : /\ FailedAfterMkdir(r) /\ r.err = "WriteFailed"
                       /\ r.removal = "done"
                       /\ ~DirExists(fs, KeyOf(r))

(* C17: when createServer throws after the recursive removal of its catch
   block failed, the error thrown is the one that made the call fail, not
   the removal's. *)
C17_OriginalErrorSurvivesCleanupFailure ==
    \A r \in settled :
        (FailedAfterMkdir(r) /\ r.removal = "failed") => r.err # "CleanupFailed"

----------------------------------------------------------------------------
(* Properties of createServer and importServer on one registry *)

RegistryOps == {"create", "import"}

Succeeded(r) == r.op \in RegistryOps /\ r.pc = "returned"

(* the record on disk is that of a createServer call still in flight *)
OwnedByCreateInFlight(n) ==
    \E c \in DOMAIN calls : /\ calls[c].op = "create" /\ Key(c) = n
                            /\ calls[c].config = fs[n].config

(* C11: for calls of createServer and importServer on the same name, a
   record persisted on disk is never overwritten or removed by another call
   (only the createServer call that wrote it and is still in flight may
   touch it), and a call that returns success leaves its own record on
   disk, so two calls never both succeed. *)
C11_SingleWinner ==
    [][/\ \A n \in Names :
              (Len(fs[n].config) > 0 /\ ~OwnedByCreateInFlight(n))
                  => fs'[n].config = fs[n].config
       /\ \A r \in settled' : Succeeded(r) => fs'[KeyOf(r)].config = r.config]_vars

(* C12: when createServer or importServer returns success, the record file
   of the name is on disk and holds exactly the returned config. *)
C12_SuccessMeansPersisted ==
    \A r \in settled :
        Succeeded(r) => /\ FileExists(fs, KeyOf(r), ConfigFile)
                        /\ fs[KeyOf(r)].config = r.config

(* the call c takes the step *)
Steps(c) == c \in DOMAIN calls /\ (c \notin DOMAIN calls' \/ calls'[c] # calls[c])

(* C13: a createServer call whose mkdir finds the directory present throws
   the already-exists error, runs no removal and leaves the registry as it
   is; the recursive removal runs only in calls that made the directory,
   and on the directory that call made. *)
C13_ExistingDirectoryUntouched ==
    [][\A c \in DOMAIN calls :
          (calls[c].op = "create" /\ Steps(c)) =>
              /\ (calls[c].pc = "mkdir" /\ DirExists(fs, Key(c)))
                     => /\ fs' = fs
                        /\ \E r \in settled' : /\ r.id = c /\ r.pc = "threw"
                                               /\ r.err = "AlreadyExists"
                                               /\ r.removal = "none"
              /\ calls[c].pc = "cleanup"
                     => /\ calls[c].made
                        /\ fs[Key(c)].dir \in {<<>>, <<c>>}]_vars

C13_Witness ==
    /\ \E r \in settled : r.op = "create" /\ r.err = "AlreadyExists"
    /\ \E n \in Names : /\ FileExists(fs, n, ConfigFile)
                        /\ fs[n].config[1].source = "imported"

(* C14: an importServer call that finds a record for the name throws the
   already-managed error, one that finds the registry directory without a
   record while importing another directory throws too, both leaving the
   registry as it is; a call that returns has persisted a record with
   source imported whose serverPath is the path given, and has added no
   file but the record. *)
C14_ImportChecks ==
    [][\A c \in DOMAIN calls :
          (calls[c].op = "import" /\ Steps(c)) =>
              /\ (calls[c].pc = "cfgcheck" /\ FileExists(fs, Key(c), ConfigFile))
                     => /\ fs' = fs
                        /\ \E r \in settled' : r.id = c /\ r.err = "AlreadyManaged"
              /\ (/\ calls[c].pc = "cfgcheck"
                  /\ ~FileExists(fs, Key(c), ConfigFile)
                  /\ calls[c].args[1].sourcePath # "self")
                     => /\ fs' = fs
                        /\ \E r \in settled' : r.id = c /\ r.err = "DifferentDirectory"
              /\ \A r \in settled' :
                     (r.id = c /\ r.pc = "returned")
                         => /\ Len(fs'[Key(c)].config) = 1
                            /\ fs'[Key(c)].config[1].source = "imported"
                            /\ fs'[Key(c)].config[1].serverPath = calls[c].args[1].sourcePath
                            /\ fs'[Key(c)].files = fs[Key(c)].files \cup {ConfigFile}
                            /\ \A n \in Names \ {Key(c)} : fs'[n] = fs[n]]_vars

C14_Witness ==
    /\ \E r \in settled : r.op = "import" /\ r.err = "AlreadyManaged"
    /\ \E n \in Names : /\ FileExists(fs, n, ConfigFile)
                        /\ fs[n].config[1].source = "imported"
                        /\ fs[n].config[1].serverPath = "ext"
                        /\ fs[n].files = {ConfigFile}

(* C19: when createServer returns success the registry directory of the
   name holds server.jar, eula.txt, server.properties and bot-config.json,
   and the record has source created, the version and the build the
   resolver returned, and the validated port and memoryMb. *)
C19_CreatedInstallation ==
    \A r \in settled :
        (r.op = "create" /\ r.pc = "returned") =>
            /\ {JarFile, "eula.txt", "server.properties", ConfigFile}
                   \subseteq fs[KeyOf(r)].files
            /\ Len(fs[KeyOf(r)].config) = 1
            /\ LET rec == fs[KeyOf(r)].config[1]
               IN  /\ rec.source = "created"
                   /\ rec.version = r.resolvedBuild[1].version
                   /\ rec.build = r.resolvedBuild[1].build
                   /\ rec.port = r.args[1].port
                   /\ InRange(rec.port, PortMin, PortMax)
                   /\ rec.memoryMb = r.mem
                   /\ InRange(rec.memoryMb[1], MemMin, MemMax)

C19_Witness ==
    \E r \in settled : /\ r.op = "create" /\ r.pc = "returned"
                       /\ fs[KeyOf(r)].config[1].version = Dotted(<<1, 21, 1>>)
                       /\ fs[KeyOf(r)].config[1].port = DefaultPort

----------------------------------------------------------------------------
(* Properties of validation and of the tracking map *)

ValidationErrors == {"InvalidName", "InvalidPort", "InvalidMemory"}

(* C15: a call rejected for a malformed name or an out-of-range port or
   memory value throws in the step in which it was made, before it was
   suspended at any await of a filesystem, network or spawn operation. *)
C15_RejectedBeforeIO ==
    [][\A r \in settled' : r.err \in ValidationErrors => r.id \notin DOMAIN calls]_vars

(* the name is tracked but resolveManagedServer no longer finds it *)
Orphaned(n) == Has(running, n) /\ Len(resolveManagedServer(fs, n)) = 0

(* C16: while a name is tracked but no longer resolves, stopServer(name)
   finds the process and starts the stop protocol, getRecentLogs(name)
   returns the tail of the live buffer, and getStatus(name) reports the
   name as not existing and not running. *)
C16_OrphanStillControlled ==
    [][\A n \in Names : Orphaned(n) =>
          \A r \in Moved :
              (KeyOf(r) = n /\ NameOk(r.name)) =>
                  /\ (r.op = "stop" /\ r.id = ncalls + 1)
                         => r.pc = "race" /\ r.child = running[n].process
                  /\ (r.op = "logs" /\ r.id \in DOMAIN calls)
                         => /\ r.pc = "returned"
                            /\ r.result = <<LastN(running[n].logs, r.args[1].lines)>>
                  /\ (r.op = "status" /\ r.id \in DOMAIN calls)
                         => /\ r.pc = "returned"
                            /\ ~r.result[1].exists /\ ~r.result[1].running]_vars

(* the memoryMb of the record on disk, when there is a record with one *)
StoredMemory(f, n) ==
    IF Len(f[n].config) > 0 /\ Len(f[n].config[1].memoryMb) > 0
    THEN f[n].config[1].memoryMb ELSE <<>>

ExpectedMemory(f, r) ==
    IF Len(r.mem) > 0 THEN r.mem[1]
    ELSE IF Len(StoredMemory(f, KeyOf(r))) > 0 THEN StoredMemory(f, KeyOf(r))[1]
    ELSE DefaultMemoryMb

(* C20: a startServer call that returns reports, and has spawned the child
   with, the override when one was given, which then lies in [512,65536],
   else the memoryMb stored in the record, else 2048; and no step of
   startServer changes what is stored on disk. *)
C20_EffectiveMemory ==
    [][/\ fs' = fs
       /\ \A r \in settled' :
              (r.op = "start" /\ r.pc = "returned") =>
                  /\ r.memoryMb = ExpectedMemory(fs, r)
                  /\ procs'[r.child].heap = ExpectedMemory(fs, r)
                  /\ Len(r.mem) > 0 => InRange(r.mem[1], MemMin, MemMax)]_vars

C20_Witness ==
    /\ \E r \in settled : /\ r.op = "start" /\ r.pc = "returned"
                          /\ r.mem = <<4096>> /\ r.memoryMb = 4096
                          /\ StoredMemory(fs, KeyOf(r)) = <<1024>>
    /\ \E ch \in DOMAIN procs : procs[ch].heap = 1024

Handled(ch) == procs[ch].st = "exited" \/ procs[ch].errored

(* C18: a tracking entry appears, or changes the process it refers to, only
   in the step in which the startServer call that spawned that process
   returns; and no tracking entry refers to a process whose exit or error
   event has been handled. *)
C18_EntryOnlyWhileRunning ==
    [][/\ \A n \in DOMAIN running' :
              (n \notin DOMAIN running \/ running'[n].process # running[n].process)
                  => \E r \in settled' : /\ r.op = "start" /\ r.pc = "returned"
                                         /\ r.child = running'[n].process
                                         /\ procs[r.child].st = "spawning"
       /\ \A n \in DOMAIN running' :
              /\ procs'[running'[n].process].st # "exited"
              /\ ~procs'[running'[n].process].errored]_vars

C18_Witness ==
    /\ running = EmptyMap
    /\ \E ch \in DOMAIN procs : procs[ch].errored /\ procs[ch].st = "alive"
    /\ \E ch \in DOMAIN procs : procs[ch].st = "exited"

----------------------------------------------------------------------------
(* Properties of the version comparator *)

Sign(x) == IF x > 0 THEN 1 ELSE IF x < 0 THEN -1 ELSE 0

RECURSIVE FirstDifference(_, _, _)
(* the first non-zero difference of the segments from position i on,
   missing segments read as 0 *)
FirstDifference(x, y, i) ==
    IF i > Len(x) /\ i > Len(y) THEN 0
    ELSE LET d == (IF i <= Len(x) THEN x[i] ELSE 0) - (IF i <= Len(y) THEN y[i] ELSE 0)
         IN  IF d # 0 THEN d ELSE FirstDifference(x, y, i + 1)

(* C21: compareMcVersion(a, b) has the sign of the first difference of the
   segments of a and b, missing segments read as 0, and the opposite sign
   of compareMcVersion(b, a); pickLatestMcVersion returns an element of a
   non-empty list that no element of the list compares greater than. *)
C21_VersionOrder ==
    \A r \in settled :
        /\ r.op = "compare" =>
               /\ Sign(r.result) = Sign(FirstDifference(r.x, r.y, 1))
               /\ Sign(r.result) = -Sign(compareMcVersion(r.b, r.a))
        /\ (r.op = "pick" /\ Len(r.versions) > 0) =>
               /\ Len(r.result) = 1
               /\ \E i \in 1..Len(r.versions) : r.versions[i] = r.result[1]
               /\ \A i \in 1..Len(r.versions) :
                      compareMcVersion(r.versions[i], r.result[1]) <= 0

C21_Witness ==
    /\ \E r \in settled : /\ r.op = "compare" /\ r.a = Dotted(<<1, 9>>)
                          /\ r.b = Dotted(<<1, 10>>) /\ r.result < 0
    /\ compareMcVersion(Dotted(<<1, 10>>), Dotted(<<1, 10, 0>>)) = 0

----------------------------------------------------------------------------
(* Properties of the record file *)

RoundTrips == {r \in settled : r.op = "roundtrip"}

(* the fields of the record other than name and serverPath *)
RecordFields ==
    {"source", "fork", "version", "build", "port", "memoryMb", "motd", "jarFile"}

(* the falsy value of a field's type, which || replaces by the default *)
FalsyOf ==
    [source |-> "", fork |-> "", version |-> "", build |-> "null", port |-> 0,
     memoryMb |-> 0, motd |-> <<>>, jarFile |-> ""]

(* what a field reads as when the record file has nothing for it *)
DefaultOf(r, key) ==
    [source |-> IF r.config.serverPath = <<"ext">> THEN "imported" ELSE "created",
     fork |-> "vanilla", version |-> "unknown", build |-> "null",
     port |-> DefaultPort, memoryMb |-> DefaultMemoryMb,
     motd |-> Trim(r.name), jarFile |-> JarFile][key]

(* C22 as stated: writeServerConfig(name, config) then readServerConfig(name)
   returns a record named after the stored name in which every field the
   written config had is unchanged *)
C22_RoundTripAllPresent ==
    \A r \in RoundTrips :
        /\ Len(r.result) = 1
        /\ r.result[1].name = Trim(r.name)
        /\ \A key \in RecordFields :
              r.config[key] # <<>> => r.result[1][key] = r.config[key][1]

(* C22: writeServerConfig(name, config) then readServerConfig(name) returns
   a record named after the stored name; a field the written config had
   with a value other than "", 0 or null (for build: other than null) is
   returned unchanged, and every other field reads as its default *)
C22_RoundTrip ==
    \A r \in RoundTrips :
        /\ Len(r.result) = 1
        /\ r.result[1].name = Trim(r.name)
        /\ \A key \in RecordFields :
              IF r.config[key] = <<>> THEN r.result[1][key] = DefaultOf(r, key)
              ELSE IF r.config[key][1] = FalsyOf[key]
                   THEN r.result[1][key] = DefaultOf(r, key)
                   ELSE r.result[1][key] = r.config[key][1]

C22_Witness ==
    \E r \in RoundTrips :
        /\ r.name # Trim(r.name)
        /\ r.config.port = <<30000>> /\ r.result[1].port = 30000
        /\ r.config.motd = <<>> /\ r.result[1].motd = GoodName
        /\ r.config.memoryMb = <<0>> /\ r.result[1].memoryMb = DefaultMemoryMb

----------------------------------------------------------------------------
(* Properties of the legacy record *)

Resolves == {r \in settled : r.op = "resolve"}

RECURSIVE LastSaid(_, _)
(* what the last line that says something about the field says *)
LastSaid(written, field) ==
    IF Len(written) = 0 THEN <<>>
    ELSE IF written[Len(written)][field] # <<>> THEN written[Len(written)][field]
    ELSE LastSaid(SubSeq(written, 1, Len(written) - 1), field)

LegacyDefaults(r) ==
    /\ r.result[1].jarExists
    /\ r.result[1].config.name = r.name
    /\ r.result[1].config.source = "legacy"
    /\ r.result[1].config.fork = "vanilla"
    /\ r.result[1].config.version = <<"u", "n", "k", "n", "o", "w", "n">>
    /\ r.result[1].config.build = "null"
    /\ r.result[1].config.memoryMb = DefaultMemoryMb
    /\ r.result[1].config.createdAt = "null"

(* C23 as stated: without a record file, resolveManagedServer returns null
   when server.jar is missing and otherwise a legacy record with the
   defaults, whose port and motd are those the properties file gives
   whenever it gives one, else 25565 and the name *)
C23_LegacyTakesWhatIsPresent ==
    \A r \in Resolves :
        LET written == fs[r.name].written
            port == LastSaid(written, "port")
            motd == LastSaid(written, "motd")
        IN  IF JarFile \notin fs[r.name].files THEN r.result = <<>>
            ELSE /\ Len(r.result) = 1
                 /\ LegacyDefaults(r)
                 /\ r.result[1].config.port =
                        (IF port = <<>> THEN DefaultPort ELSE port[1])
                 /\ r.result[1].config.motd =
                        (IF motd = <<>> THEN r.name ELSE motd[1])

(* C23: without a record file, resolveManagedServer returns null when
   server.jar is missing and otherwise a legacy record with the defaults,
   whose port is the last integer port of the properties file unless that
   is 0 or there is none, then 25565, and whose motd is the unescaped last
   motd of the file unless that is empty or there is none, then the name *)
C23_LegacyRecord ==
    \A r \in Resolves :
        LET written == fs[r.name].written
            port == LastSaid(written, "port")
            motd == LastSaid(written, "motd")
        IN  IF JarFile \notin fs[r.name].files THEN r.result = <<>>
            ELSE /\ Len(r.result) = 1
                 /\ LegacyDefaults(r)
                 /\ r.result[1].config.port =
                        (IF port = <<>> THEN DefaultPort
                         ELSE IF port[1] = 0 THEN DefaultPort ELSE port[1])
                 /\ r.result[1].config.motd =
                        (IF motd = <<>> THEN r.name
                         ELSE IF motd[1] = <<>> THEN r.name ELSE motd[1])

C23_Witness ==
    \E r \in Resolves :
        /\ Len(r.result) = 1
        /\ Len(fs[r.name].written) = 2
        /\ r.result[1].config.port = 25570
        /\ r.result[1].config.motd = <<"a", ":", "b">>

----------------------------------------------------------------------------
(* Properties of getRecentLogs *)

LogReturns(S) == {r \in S : r.op = "logs" /\ r.pc = "returned"}

Min(a, b) == IF a <= b THEN a ELSE b

(* the last min(n, Len(s)) elements of s, in the order of s *)
Newest(s, n) == [i \in 1..Min(n, Len(s)) |-> s[Len(s) - Min(n, Len(s)) + i]]

(* C24: a getRecentLogs(name, n) that returns gives the last min(n, length)
   entries of the live buffer when the name has a tracking entry; without
   an entry the last min(n, count) non-empty lines of logs/latest.log, and
   nothing when that file is not there; the step in which it returns
   leaves the tracking map and its buffers as they were *)
C24_RecentLogs ==
    /\ [](\A r \in LogReturns(settled) :
             LET entry == GetEntry(running, KeyOf(r))
                 n == r.args[1].lines
             IN  IF Len(entry) > 0
                 THEN r.logFile = <<>> /\ r.result[1] = Newest(entry[1].logs, n)
                 ELSE /\ Len(r.logFile) = 1
                      /\ r.result[1] = IF r.logFile[1] = <<>> THEN <<>>
                                       ELSE Newest(r.logFile[1][1].lines, n))
    /\ [][LogReturns(settled') # {} => running' = running]_vars

C24_Witness ==
    \E r \in LogReturns(settled) :
        /\ r.args[1].lines = 2
        /\ Len(r.logFile) = 1 /\ Len(r.logFile[1]) = 1
        /\ Len(r.logFile[1][1].lines) = 3
        /\ Len(r.result[1]) = 2

----------------------------------------------------------------------------
(* Properties of listServersDetailed *)

ListReturns == {r \in settled : r.op = "list" /\ r.pc = "returned"}

(* the subdirectories whose name matches /^[a-zA-Z0-9_-]{3,32}$/ and which
   resolve to a managed installation *)
ManagedDirs ==
    {d \in DirNames : /\ DirExists(fs, d)
                      /\ NameOk(d) /\ Trim(d) = d
                      /\ resolveManagedServer(fs, d) # <<>>}

(* C25: listServersDetailed returns exactly one item for each subdirectory
   whose name matches the pattern and which resolves to a managed
   installation, and no other item, sorted by name, the running flag of
   each item being the presence of a tracking entry for its name *)
C25_ListExact ==
    \A r \in ListReturns :
        LET items == r.result[1]
        IN  /\ \A d \in ManagedDirs :
                  Cardinality({i \in 1..Len(items) : items[i].name = d}) = 1
            /\ \A i \in 1..Len(items) :
                  /\ items[i].name \in ManagedDirs
                  /\ items[i].running = Has(running, items[i].name)
                  /\ \A j \in 1..Len(items) :
                        i < j => localeCompare(items[i].name, items[j].name) <= 0

----------------------------------------------------------------------------
(* Properties of the operational parameters *)

(* C26: the config resolveManagedServer returns for a legacy installation
   has its port in [1024,65535] and its memoryMb in [512,65536], whatever
   the properties file says *)
C26_ParametersInRange ==
    \A r \in Resolves :
        Len(r.result) = 1 =>
            /\ InRange(r.result[1].config.port, PortMin, PortMax)
            /\ InRange(r.result[1].config.memoryMb, MemMin, MemMax)

----------------------------------------------------------------------------
(* Properties of the records createServer and importServer persist *)

(* the record persisted under a name, <<>> for none *)
Persisted(f, n) == IF FileExists(f, n, ConfigFile) THEN f[n].config ELSE <<>>

(* C27: no record createServer or importServer persists has the literal
   "latest" as its version, whatever version specifier the caller passed *)
C27_VersionNeverLatest ==
    \A n \in Names :
        Len(Persisted(fs, n)) = 1 => Persisted(fs, n)[1].version # Latest

(* the source a name resolves with, <<>> while it does not resolve *)
SourceOf(f, n) ==
    IF Len(resolveManagedServer(f, n)) = 0 THEN <<>>
    ELSE <<resolveManagedServer(f, n)[1].config.source>>

(* C28: a name that resolves with a source keeps that source as long as
   the manager's operations run: no step of createServer or importServer
   makes it resolve with another one *)
C28_ProvenanceKept ==
    [][\A n \in Names :
          (Len(SourceOf(fs, n)) = 1 /\ Len(SourceOf(fs', n)) = 1)
              => SourceOf(fs', n) = SourceOf(fs, n)]_vars

(* C29: a registry directory without a record is treated as absent: the
   name does not resolve, createServer does not fail on it with the
   already-exists error, and importServer does not fail on it with the
   different-directory error *)
C29_RecordlessIsAbsent ==
    \A n \in Names :
        (DirExists(fs, n) /\ Len(Persisted(fs, n)) = 0) =>
            /\ Len(resolveManagedServer(fs, n)) = 0
            /\ \A r \in settled :
                  KeyOf(r) = n =>
                      /\ ~(r.op = "create" /\ r.pc = "threw" /\ r.err = "AlreadyExists")
                      /\ ~(r.op = "import" /\ r.pc = "threw"
                           /\ r.err = "DifferentDirectory")

(* C30: the motd of every record createServer or importServer persists
   holds no carriage return and no line feed *)
C30_MotdNormalized ==
    \A n \in Names :
        Len(Persisted(fs, n)) = 1 =>
            \A i \in 1..Len(Persisted(fs, n)[1].motd) :
                Persisted(fs, n)[1].motd[i] \notin {"\r", "\n"}

----------------------------------------------------------------------------
(* Properties of a createServer call in flight *)

(* the createServer calls that made their directory and have not yet
   persisted the record *)
CreatesInFlight ==
    {c \in DOMAIN calls : /\ calls[c].op = "create"
                          /\ calls[c].made
                          /\ calls[c].pc \in {"resolve", "fetch", "pipe", "eula",
                                              "props", "cfgdir", "cfgwrite"}}

(* C31: while a createServer call has made the directory and not yet
   persisted the record, the name does not resolve to an installation, so
   that getStatus and listServersDetailed do not report it and startServer
   does not get past its not-managed check *)
C31_InFlightNotObservable ==
    \A c \in CreatesInFlight : Len(resolveManagedServer(fs, Key(c))) = 0

----------------------------------------------------------------------------
(* Properties of the listeners *)

(* C32: every child the manager spawned that is still alive is tracked by
   the entry under its name, whose process handle is that child: no
   listener of another child has removed or replaced the entry *)
C32_LiveChildTracked ==
    \A ch \in DOMAIN procs :
        Alive(ch) => /\ Has(running, procs[ch].name)
                     /\ running[procs[ch].name].process = ch

----------------------------------------------------------------------------
(* Properties of the capture of chunked output *)

(* C33: once all chunks of a stream are delivered, the buffer holds one
   entry for each non-empty complete line of the stream, carriage returns
   removed, in order, however the stream was cut into chunks *)
C33_ChunkingIndependent ==
    \A r \in settled :
        (r.op = "stream" /\ hist = <<>>) =>
            /\ Len(running[TrackedName].logs) = Len(r.stream.lines)
            /\ \A i \in 1..Len(r.stream.lines) :
                  running[TrackedName].logs[i].line = r.stream.lines[i]

----------------------------------------------------------------------------
(* Properties of the paper build selection *)

(* the highest of a non-empty set of numbers *)
Highest(S) == CHOOSE b \in S : \A x \in S : x <= b

(* C34: for an empty build list the resolution fails; otherwise the build
   chosen is the highest among the entries of the default channel, bare
   numbers counting as such, when there is one, and the highest of the
   whole list when there is none *)
C34_PaperBuildChoice ==
    \A r \in settled :
        r.op = "paper" =>
            LET all == 1..Len(r.builds)
                defaults == {i \in all : r.builds[i].bare \/ r.builds[i].channel = "default"}
                pool == IF defaults # {} THEN defaults ELSE all
            IN  IF Len(r.builds) = 0 THEN r.result = <<>>
                ELSE r.result = <<Decimal(Highest({r.builds[i].build[1] : i \in pool}))>>

C34_Witness ==
    \E r \in settled :
        /\ r.op = "paper"
        /\ \E i, j \in 1..Len(r.builds) :
              /\ r.builds[i].channel = "experimental" /\ r.builds[i].build = <<20>>
              /\ r.builds[j].channel = "default" /\ r.builds[j].build = <<12>>
        /\ r.result = << <<"1", "2">> >>

(* C35: for every motd without line breaks, the file buildServerProperties
   generates reads back, by readServerProperties, as the same motd and the
   same port *)
C35_PropertiesRoundTrip ==
    \A r \in settled :
        r.op = "properties" => /\ r.read.motd = <<r.motd>>
                               /\ r.read.port = <<r.port>>

----------------------------------------------------------------------------
(* Properties of the generated server.properties *)

(* what readServerProperties finds in the server.properties createServer
   generated for the installation n *)
GeneratedProperties(n) ==
    PropertyLines([port |-> <<>>, motd |-> <<>>], SplitLines(fs[n].properties))

(* C36: when createServer returns, the motd and the port of the record agree
   with the motd and the server-port of the server.properties it generated,
   whatever the motd input, an empty or missing one included *)
C36_RecordAgreesWithProperties ==
    \A r \in settled :
        (r.op = "create" /\ r.pc = "returned") =>
            /\ GeneratedProperties(KeyOf(r)).port = <<fs[KeyOf(r)].config[1].port>>
            /\ GeneratedProperties(KeyOf(r)).motd = <<fs[KeyOf(r)].config[1].motd>>

----------------------------------------------------------------------------
(* Properties of the wizard *)

(* the confirm handlers that called the manager for the session id and have
   not got its answer yet *)
Operations(id) ==
    {c \in DOMAIN calls : calls[c].op = "confirm" /\ calls[c].session = id}

(* C37: a wizard session runs its create or import operation at most once,
   also when its confirm button is delivered a second time while the first
   delivery awaits the operation: no session has two manager calls *)
C37_OperationOnce ==
    \A c \in DOMAIN calls :
        calls[c].op = "confirm" => Cardinality(Operations(calls[c].session)) <= 1

(* C38: when a confirmed operation completes, returning or throwing, only
   the confirmed session is removed: any other session in the map, such as
   one the user opened with /mc-wizard meanwhile, is still there *)
C38_OnlyConfirmedRemoved ==
    [][\A c \in (DOMAIN calls) \ (DOMAIN calls') :
          calls[c].op = "confirm" =>
              \A u \in DOMAIN wizardSessionByUser :
                  wizardSessionByUser[u].id # calls[c].session =>
                      /\ u \in DOMAIN wizardSessionByUser'
                      /\ wizardSessionByUser'[u] = wizardSessionByUser[u]]_vars

(* the session of the user before and after a step is the same session *)
SameSession(u) ==
    /\ u \in DOMAIN wizardSessionByUser
    /\ u \in DOMAIN wizardSessionByUser'
    /\ wizardSessionByUser'[u].id = wizardSessionByUser[u].id

(* the outcomes of the handlers that ran to their end in the latest step *)
Responses == {r \in settled : "stale" \in DOMAIN r}

StepIndexInFlow ==
    \A u \in DOMAIN wizardSessionByUser :
        IF wizardSessionByUser[u].mode = "null"
        THEN wizardSessionByUser[u].stepIndex = 0
        ELSE wizardSessionByUser[u].stepIndex
                 \in 0..Len(getFlow(wizardSessionByUser[u].mode))

AnswerAdvancesByOne ==
    \A r \in Responses' :
        (r.op \in {"fork", "modal"} /\ r.pc = "returned") =>
            /\ SameSession(r.user)
            /\ wizardSessionByUser'[r.user].mode = wizardSessionByUser[r.user].mode
            /\ wizardSessionByUser'[r.user].stepIndex =
                   wizardSessionByUser[r.user].stepIndex + 1

StaleRejected ==
    \A r \in Responses' :
        (r.op \in {"fork", "answer", "modal", "confirm"} /\ r.stale # "none") =>
            /\ r.pc = "threw"
            /\ SameSession(r.user) =>
                   /\ wizardSessionByUser'[r.user].mode = wizardSessionByUser[r.user].mode
                   /\ wizardSessionByUser'[r.user].stepIndex =
                          wizardSessionByUser[r.user].stepIndex
                   /\ wizardSessionByUser'[r.user].data = wizardSessionByUser[r.user].data

ConfirmAtEnd ==
    \A c \in (DOMAIN calls') \ (DOMAIN calls) :
        calls'[c].op = "confirm" =>
            /\ calls'[c].user \in DOMAIN wizardSessionByUser
            /\ LET session == wizardSessionByUser[calls'[c].user]
               IN  /\ session.mode \in Modes
                   /\ session.stepIndex = Len(getFlow(session.mode))
                   /\ FlowFields(session.mode) \subseteq DOMAIN session.data

(* C39: stepIndex stays within 0..length of the flow of the mode and goes up
   by exactly one per accepted answer; an interaction whose custom id does
   not match the session's position in mode, step index or field is
   rejected and leaves mode, stepIndex and data as they are; confirm is
   accepted only at stepIndex = length of the flow, where data has an
   answer for every field of the flow *)
C39_SessionPosition ==
    /\ []StepIndexInFlow
    /\ [][AnswerAdvancesByOne /\ StaleRejected /\ ConfirmAtEnd]_vars

(* a confirm handler awaits the manager for a session that went through its
   whole flow and is still in the map *)
C39_Witness ==
    \E c \in DOMAIN calls :
        /\ calls[c].op = "confirm"
        /\ \E u \in DOMAIN wizardSessionByUser :
              /\ wizardSessionByUser[u].id = calls[c].session
              /\ wizardSessionByUser[u].stepIndex = Len(CREATE_FLOW)
              /\ DOMAIN wizardSessionByUser[u].data = FlowFields("create")

=============================================================================
